---- MODULE Spec2Model ----
(***************************************************************************)
(* The vApp resource of terraform-provider-vsphere                         *)
(* (vsphere/resource_vsphere_vapp.go): the create, update and delete       *)
(* cycles of one vApp container against the vSphere inventory, the         *)
(* entity diff, attach/detach, the metadata push and the power calls.      *)
(***************************************************************************)
EXTENDS Integers, Sequences, FiniteSets, TLC

(* ---------------- program constants ---------------- *)
entityInputVm == "vm"
entityInputVapp == "vapp"
vAppEntityTypeVm == "VirtualMachine"
vAppEntityTypeVApp == "VirtualApp"
vAppStartOrderMin == 0

(* ---------------- bounds of the model ---------------- *)
\* number of cycles (create, update, delete) run on the resource
MaxCycles == 4
\* length of the vlan range texts
MaxRangeLen == 4

(* ---------------- the inventory the cycles run against ---------------- *)
Idents == { <<"a", entityInputVm>>, <<"a", entityInputVapp>>, <<"b", entityInputVm>> }
StartOrders == { vAppStartOrderMin, vAppStartOrderMin + 1 }
NoPath == ""
VAppPath == "/dc/vm/app"
RootFolder == "/dc/vm"

\* where an entity lives before it is attached: its pool (or parent) path and folder path
HomePool(id) == IF id[2] = entityInputVm THEN "/dc/host/c1/Resources" ELSE "/dc/host/c1/Resources/rp1"
HomeFolder(id) == IF id[1] = "a" THEN "/dc/vm/f1" ELSE RootFolder
PoolPaths == { HomePool(id) : id \in Idents }
FolderPaths == { HomeFolder(id) : id \in Idents } \cup { RootFolder }

getEntityType(eType) ==
  IF eType = entityInputVm THEN vAppEntityTypeVm
  ELSE IF eType = entityInputVapp THEN vAppEntityTypeVApp
  ELSE "UNKNOWN"

\* the managed object id the inventory gives an entity
MoidOf(name, entityType) ==
  (IF entityType = vAppEntityTypeVm THEN "vm-" ELSE "vapp-") \o name
RefOf(id) == [Type |-> getEntityType(id[2]), Value |-> MoidOf(id[1], getEntityType(id[2]))]
EntityRefs == { RefOf(id) : id \in Idents }
IdOfRef(ref) == CHOOSE id \in Idents : RefOf(id) = ref
TemplateKidRef == [Type |-> vAppEntityTypeVm, Value |-> "vm-tk"]

(* ---------------- the "entity" set of the resource data ---------------- *)
\* an element of the "entity" schema set, as the user declares it
\* (the sample inputs: every entity with the default ordering, and the virtual
\* machine "a" also with a raised start order and waiting for its guest)
DeclElems ==
  { e \in [name : {"a", "b"}, type : {entityInputVm, entityInputVapp},
           start_order : StartOrders, waiting_for_guest : BOOLEAN] :
      /\ <<e.name, e.type>> \in Idents
      /\ e.waiting_for_guest = (e.start_order # vAppStartOrderMin)
      /\ (e.waiting_for_guest => e.name = "a" /\ e.type = entityInputVm) }
Ident(e) == <<e.name, e.type>>
UniqueIdent(S) == \A x, y \in S : Ident(x) = Ident(y) => x = y
DeclaredLists == { S \in SUBSET DeclElems : UniqueIdent(S) }

\* the hash a schema set keys an element by: the required and optional
\* attributes only, never the computed ones
HashCode(e) ==
  (IF e.name = "a" THEN 0 ELSE 16) + (IF e.type = entityInputVm THEN 0 ELSE 8)
  + 2 * e.start_order + (IF e.waiting_for_guest THEN 1 ELSE 0)
Hashes(S) == { HashCode(e) : e \in S }
\* (a difference that drops nothing)
DifferenceAll(S, T) == S
Difference(S, T) == { e \in S : HashCode(e) \notin Hashes(T) }
SetRemoveNothing(S, e) == S
SetRemove(S, e) == { x \in S : HashCode(x) # HashCode(e) }

\* schema.Set.List(): the elements in the order of their hash codes
RECURSIVE List(_)
List(S) ==
  IF S = {} THEN <<>>
  ELSE LET m == CHOOSE x \in S : \A y \in S : HashCode(x) <= HashCode(y)
       IN <<m>> \o List(S \ {m})

WithComputed(e, moid, fp, rp) ==
  [name |-> e.name, type |-> e.type, start_order |-> e.start_order,
   waiting_for_guest |-> e.waiting_for_guest,
   moid |-> moid, folder_path |-> fp, resourcepool_path |-> rp]

\* d.Get("entity") during a cycle: the declared elements; an element whose hash is
\* already in the state keeps the state's computed fields, a new one has none
NewEntitySet(declared, state) ==
  { IF \E s \in state : HashCode(s) = HashCode(e)
      THEN CHOOSE s \in state : HashCode(s) = HashCode(e)
      ELSE WithComputed(e, "", NoPath, NoPath) : e \in declared }

Range(s) == { s[i] : i \in 1..Len(s) }

(* ---------------- pure helpers of the resource ---------------- *)
\* a *bool field: NilPtr when unset, Ptr(v) when it points to v
NilPtr == {}
Ptr(v) == {v}
\* `if v, ok := entity[key].(bool); ok { field = &v }`: the field stays nil when the
\* map has no such key
BoolField(entity, key) == IF key \in DOMAIN entity THEN Ptr(entity[key]) ELSE NilPtr

\* one element of populateVAppEntities: the vAppEntity built from a resource-data map
populateVAppEntity(entity) ==
  [name |-> entity.name,
   entityType |-> getEntityType(entity.type),
   StartOrder |-> entity.start_order,
   WaitingForGuest |-> BoolField(entity, "wait_for_guest"),
   entityMoid |-> entity.moid,
   entityFolderPath |-> entity.folder_path,
   entityRPPath |-> entity.resourcepool_path]

populateVAppEntities(entitySet) ==
  [i \in 1..Len(entitySet) |-> populateVAppEntity(entitySet[i])]

\* the identity test of the diff: same name and same type
SameEntityNameOnly(addedEntity, removedEntity) ==
  addedEntity.name = removedEntity.name
SameEntity(addedEntity, removedEntity) ==
  addedEntity.name = removedEntity.name /\ addedEntity.type = removedEntity.type

\* the modified entry: the declared element with the previous element's computed fields
CarryNothing(addedEntity, removedEntity) ==
  addedEntity
CarryAll(addedEntity, removedEntity) ==
  removedEntity
CarryComputed(addedEntity, removedEntity) ==
  WithComputed(addedEntity, removedEntity.moid, removedEntity.folder_path,
               removedEntity.resourcepool_path)

\* (a pairing loop that never finds the removed entry of an added one)
FirstMatchNone(removedList, j, addedEntity) == 0

\* the inner loop of the diff: index of the first removed element with the added
\* element's identity, 0 when there is none
RECURSIVE FirstMatch(_, _, _)
FirstMatch(removedList, j, addedEntity) ==
  IF j > Len(removedList) THEN 0
  ELSE IF SameEntity(addedEntity, removedList[j]) THEN j
  ELSE FirstMatch(removedList, j + 1, addedEntity)

\* the outer loop of the diff over addedEntitySet.List(), taken before the loop;
\* removedEntitySet.List() is taken anew in every round
RECURSIVE FindModified(_, _, _)
FindModified(addedList, i, acc) ==
  IF i > Len(addedList) THEN acc
  ELSE LET addedEntity == addedList[i]
           removedList == List(acc.removed)
           j == FirstMatch(removedList, 1, addedEntity)
       IN IF j = 0 THEN FindModified(addedList, i + 1, acc)
          ELSE FindModified(addedList, i + 1,
                 [added |-> SetRemove(acc.added, addedEntity),
                  removed |-> SetRemove(acc.removed, removedList[j]),
                  modified |-> Append(acc.modified, CarryComputed(addedEntity, removedList[j]))])

\* the delta of an update cycle: [added, removed : sets, modified : sequence]
EntityDiff(oldEntitySet, newEntitySet) ==
  LET addedEntitySet == Difference(newEntitySet, oldEntitySet)
      removedEntitySet == Difference(oldEntitySet, newEntitySet)
  IN FindModified(List(addedEntitySet), 1,
                  [added |-> addedEntitySet, removed |-> removedEntitySet, modified |-> <<>>])

\* d.HasChange("entity")
HasChangeEntity(oldEntitySet, newEntitySet) == Hashes(oldEntitySet) # Hashes(newEntitySet)

\* one config record per entity, keyed by the entity's object reference
createEntityConfigInfo(vAppEntitiesArg) ==
  [i \in 1..Len(vAppEntitiesArg) |->
     [Key |-> [Type |-> vAppEntitiesArg[i].entityType, Value |-> vAppEntitiesArg[i].entityMoid],
      StartOrder |-> vAppEntitiesArg[i].StartOrder,
      WaitingForGuest |-> vAppEntitiesArg[i].WaitingForGuest]]

\* (the match of backPopulateEntiy without the type)
RECURSIVE FirstEntityByName(_, _, _)
FirstEntityByName(vAppEntitiesArg, j, entity) ==
  IF j > Len(vAppEntitiesArg) THEN 0
  ELSE IF entity.name = vAppEntitiesArg[j].name THEN j
  ELSE FirstEntityByName(vAppEntitiesArg, j + 1, entity)

\* backPopulateEntiy: the stored elements in list order, the ones matching a
\* reconciled entity with its computed fields
RECURSIVE FirstEntity(_, _, _)
FirstEntity(vAppEntitiesArg, j, entity) ==
  IF j > Len(vAppEntitiesArg) THEN 0
  ELSE IF entity.name = vAppEntitiesArg[j].name
          /\ getEntityType(entity.type) = vAppEntitiesArg[j].entityType THEN j
  ELSE FirstEntity(vAppEntitiesArg, j + 1, entity)

backPopulateList(entitySet, vAppEntitiesArg) ==
  LET l == List(entitySet)
  IN [i \in 1..Len(l) |->
        LET j == FirstEntity(vAppEntitiesArg, 1, l[i])
        IN IF j = 0 THEN l[i]
           ELSE WithComputed(l[i], vAppEntitiesArg[j].entityMoid,
                             vAppEntitiesArg[j].entityFolderPath, vAppEntitiesArg[j].entityRPPath)]

backPopulateEntiy(entitySet, vAppEntitiesArg) == Range(backPopulateList(entitySet, vAppEntitiesArg))

(* ---------------- validators of the schema ---------------- *)
entityTypeList == <<entityInputVm, entityInputVapp>>
startActionList == <<"none", "powerOn">>
stopActionList == <<"none", "powerOff", "guestShutdown", "suspend">>

\* strings.Join
RECURSIVE Join(_, _)
Join(list, sep) ==
  IF Len(list) = 0 THEN ""
  ELSE IF Len(list) = 1 THEN list[1]
  ELSE list[1] \o sep \o Join(Tail(list), sep)

\* what a SchemaValidateFunc returns: the warnings and the errors
Validation(ws, errors) == [ws |-> ws, errors |-> errors]
SupportedValues(k, list) == k \o ": Supported values are " \o Join(list, ", ")

\* (a validator that takes the inventory's kind names as well)
validateEntityTypeOrKind(v, k) ==
  Validation(<<>>, IF v # entityInputVm /\ v # entityInputVapp
                      /\ v # vAppEntityTypeVm /\ v # vAppEntityTypeVApp
                     THEN <<SupportedValues(k, entityTypeList)>> ELSE <<>>)
validateEntityType(v, k) ==
  Validation(<<>>, IF v # entityInputVm /\ v # entityInputVapp
                     THEN <<SupportedValues(k, entityTypeList)>> ELSE <<>>)

validateStartAction(v, k) ==
  Validation(<<>>, IF v # startActionList[1] /\ v # startActionList[2]
                     THEN <<SupportedValues(k, startActionList)>> ELSE <<>>)

\* (a stop validator that checks against the start actions)
validateStopActionAsStart(v, k) ==
  Validation(<<>>, IF \E i \in 1..Len(startActionList) : startActionList[i] = v
                     THEN <<>> ELSE <<SupportedValues(k, stopActionList)>>)
validateStopAction(v, k) ==
  LET found == \E i \in 1..Len(stopActionList) : stopActionList[i] = v
  IN Validation(<<>>, IF ~found THEN <<SupportedValues(k, stopActionList)>> ELSE <<>>)

(* ---------------- the vlan range of a port group ---------------- *)
\* A vlan range is text; it is held here as the sequence of its characters.
\* (the numbers of the ranges checked have at most MaxRangeLen digits, so
\* strconv.Atoi and the conversion to int32 keep their value)
vlanIdMin == 1
vlanIdMax == 4094

IsDigit(c) == c \in {"0", "1", "2", "3", "4", "5", "6", "7", "8", "9"}
DigitValue(c) ==
  CASE c = "0" -> 0 [] c = "1" -> 1 [] c = "2" -> 2 [] c = "3" -> 3 [] c = "4" -> 4
    [] c = "5" -> 5 [] c = "6" -> 6 [] c = "7" -> 7 [] c = "8" -> 8 [] c = "9" -> 9

\* the text as one string
RECURSIVE Text(_)
Text(s) == IF s = <<>> THEN "" ELSE s[1] \o Text(Tail(s))

\* strings.Split(s, sep) for a separator of one character
RECURSIVE SplitFrom(_, _, _)
SplitFrom(s, sep, piece) ==
  IF s = <<>> THEN <<piece>>
  ELSE IF s[1] = sep THEN <<piece>> \o SplitFrom(Tail(s), sep, <<>>)
  ELSE SplitFrom(Tail(s), sep, Append(piece, s[1]))
Split(s, sep) == SplitFrom(s, sep, <<>>)

\* strings.TrimSpace
RECURSIVE TrimLeft(_)
TrimLeft(s) == IF s # <<>> /\ s[1] = " " THEN TrimLeft(Tail(s)) ELSE s
RECURSIVE TrimRight(_)
TrimRight(s) ==
  IF s # <<>> /\ s[Len(s)] = " " THEN TrimRight(SubSeq(s, 1, Len(s) - 1)) ELSE s
TrimSpace(s) == TrimRight(TrimLeft(s))

\* the two patterns of parseVlanRange: "^\\d+$" and "^(\\d+)-(\\d+)$"
MatchNumber(s) == Len(s) > 0 /\ \A i \in 1..Len(s) : IsDigit(s[i])
MatchPair(s) ==
  \E i \in 2..(Len(s) - 1) :
    s[i] = "-" /\ MatchNumber(SubSeq(s, 1, i - 1)) /\ MatchNumber(SubSeq(s, i + 1, Len(s)))

\* strconv.Atoi of a text of digits
RECURSIVE AtoiFrom(_, _)
AtoiFrom(s, acc) == IF s = <<>> THEN acc ELSE AtoiFrom(Tail(s), 10 * acc + DigitValue(s[1]))
Atoi(s) == AtoiFrom(s, 0)

NumericRange(start, end) == [Start |-> start, End |-> end]

\* the loop of parseVlanRange over the pieces: an empty piece is skipped, a piece
\* of neither pattern ends the parse with an error and no result
RECURSIVE parsePieces(_, _)
parsePieces(vlans, result) ==
  IF vlans = <<>> THEN [err |-> FALSE, result |-> result]
  ELSE LET v == TrimSpace(vlans[1])
       IN IF v = <<>> THEN parsePieces(Tail(vlans), result)
          ELSE IF MatchPair(v)
            THEN LET vlan == Split(v, "-")
                 IN parsePieces(Tail(vlans), Append(result, NumericRange(Atoi(vlan[1]), Atoi(vlan[2]))))
          ELSE IF MatchNumber(v)
            THEN parsePieces(Tail(vlans), Append(result, NumericRange(Atoi(v), Atoi(v))))
          ELSE [err |-> TRUE, result |-> <<>>]

parseVlanRange(vlanRange) == parsePieces(Split(vlanRange, ","), <<>>)

OutOfRange(k, id) ==
  k \o ": VLAN ID " \o ToString(id) \o " is out of range (" \o ToString(vlanIdMin)
    \o " - " \o ToString(vlanIdMax) \o ")"

\* the checks validateVlanRange makes on one parsed range
rangeErrors(v, k) ==
  IF v.Start < vlanIdMin \/ v.Start > vlanIdMax THEN <<OutOfRange(k, v.Start)>>
  ELSE IF v.End < vlanIdMin \/ v.End > vlanIdMax THEN <<OutOfRange(k, v.End)>>
  ELSE IF v.End < v.Start
    THEN <<k \o ": " \o ToString(v.Start) \o " needs to be smaller than " \o ToString(v.End)>>
  ELSE <<>>

\* validateVlanRange: the loop over the parsed list returns at the end of its
\* first round
validateVlanRange(v, k) ==
  LET parsed == parseVlanRange(v)
  IN IF parsed.err
       THEN Validation(<<>>, <<k \o ": Value " \o Text(v)
                                 \o " is in incorrect format. (Example: '1-5,6,8,10-20')">>)
       ELSE IF parsed.result = <<>> THEN Validation(<<>>, <<>>)
       ELSE Validation(<<>>, rangeErrors(parsed.result[1], k))

(* ---------------- identity of the container ---------------- *)
vAppPathString(parentFolder, name) ==
  (IF Len(parentFolder) > 0 THEN parentFolder \o "/" ELSE "") \o name

\* d.GetOk gives ok = false for the zero value, so an attribute counts when it is not ""
getVAppPath(d) ==
  IF d.parent_vapp # "" THEN vAppPathString(d.parent_vapp, d.name)
  ELSE IF d.folder # "" THEN vAppPathString(d.folder, d.name)
  ELSE d.name

(* ---------------- the read cycle ---------------- *)
\* the resource data a read cycle is given: the saved attributes that name the
\* container, the id, the stored entity list and the uuid
ResourceData(decl, id, entity, uuid) == [decl |-> decl, id |-> id, entity |-> entity, uuid |-> uuid]

\* getCreatedVApp: f.VirtualApp at the path computed from the attributes; env.find
\* is the finder's own answer, env.vapps the containers of the inventory by path
getCreatedVApp(d, env) ==
  IF env.find = "ok" /\ getVAppPath(d.decl) \in env.vapps
    THEN [err |-> FALSE, path |-> getVAppPath(d.decl)]
    ELSE [err |-> TRUE, path |-> getVAppPath(d.decl)]

\* (a read that keeps the id of a container it does not find)
ReadNotFoundKeepsId(d) == [err |-> FALSE, d |-> d, requests |-> <<>>]
\* d.SetId("") and return nil
ReadNotFound(d) == [err |-> FALSE, d |-> [d EXCEPT !.id = ""], requests |-> <<>>]

\* resourceVSphereVAppRead: the outcome, the resource data afterwards and the
\* requests that change the inventory (it makes none)
resourceVSphereVAppRead(d, env) ==
  IF env.construct # "ok" THEN [err |-> TRUE, d |-> d, requests |-> <<>>]
  ELSE IF getCreatedVApp(d, env).err THEN ReadNotFound(d)
  ELSE IF env.retrieve # "ok" THEN [err |-> TRUE, d |-> d, requests |-> <<>>]
  ELSE [err |-> FALSE, d |-> [d EXCEPT !.uuid = env.InstanceUuid], requests |-> <<>>]

(* ---------------- location and creation of the container ---------------- *)
\* an inventory object, by kind and inventory path; an inventory is a set of them
Obj(kind, path) == [kind |-> kind, path |-> path]
NilObj == Obj("nil", "")
\* dcFolders.VmFolder of the datacenter constructVApp has resolved
VmFolder == Obj("Folder", "vm")

\* the vApp object after NewVApp, populateOptionalVAppAttributes and
\* populateVAppTemplate; finds and requests log the lookups and the remote
\* requests it makes
NewVApp(d) ==
  [d |-> d, name |-> d.name, datacenter |-> d.datacenter, datastore |-> d.datastore,
   cluster |-> d.cluster, resourcePool |-> d.resource_pool, folder |-> d.folder,
   parentVApp |-> d.parent_vapp, vAppToClone |-> d.template_vapp,
   memory |-> NilPtr, cpu |-> NilPtr,
   resourcePoolObj |-> NilObj, folderObj |-> NilObj, datastoreRef |-> NilObj,
   createdVApp |-> NilObj, finds |-> <<>>, requests |-> <<>>]

Ok(vapp) == [err |-> FALSE, vapp |-> vapp]
Err(vapp) == [err |-> TRUE, vapp |-> vapp]
Looked(vapp, o) == [vapp EXCEPT !.finds = Append(@, o)]

\* (the explicit resource-pool path taken before the parent vApp)
calculateResourcePoolExplicitFirst(vapp, inv) ==
  LET target == IF vapp.resourcePool # "" THEN Obj("ResourcePool", vapp.resourcePool)
                ELSE IF vapp.parentVApp # "" THEN Obj("VirtualApp", vapp.parentVApp)
                ELSE IF vapp.cluster = "" THEN Obj("DefaultResourcePool", "")
                ELSE Obj("ResourcePool", "*" \o vapp.cluster \o "/Resources")
  IN IF target \in inv THEN Ok([Looked(vapp, target) EXCEPT !.resourcePoolObj = target])
     ELSE Err(Looked(vapp, target))

\* one finder lookup, chosen by the first of: parent vApp (a vApp is a resource
\* pool), explicit path, cluster, default
calculateResourcePool(vapp, inv) ==
  LET target == IF vapp.parentVApp # "" THEN Obj("VirtualApp", vapp.parentVApp)
                ELSE IF vapp.resourcePool = ""
                  THEN IF vapp.cluster = "" THEN Obj("DefaultResourcePool", "")
                       ELSE Obj("ResourcePool", "*" \o vapp.cluster \o "/Resources")
                ELSE Obj("ResourcePool", vapp.resourcePool)
  IN IF target \in inv THEN Ok([Looked(vapp, target) EXCEPT !.resourcePoolObj = target])
     ELSE Err(Looked(vapp, target))

\* findFolder looks the path "<datacenter>/vm/<folder>" up
findFolderPath(datacenter, folderName) == datacenter \o "/vm/" \o folderName

calculateLocation(vapp, inv) ==
  LET rp == calculateResourcePool(vapp, inv)
      folder == Obj("Folder", findFolderPath(vapp.datacenter, vapp.folder))
  IN IF rp.err THEN rp
     ELSE IF Len(vapp.folder) > 0
       THEN IF folder \in inv THEN Ok([Looked(rp.vapp, folder) EXCEPT !.folderObj = folder])
            ELSE Err(Looked(rp.vapp, folder))
     ELSE Ok([rp.vapp EXCEPT !.folderObj = VmFolder])

\* the datastore of a clone. A name the finder does not know is looked up among
\* the children of the datastore folder (getDatastoreObject); a storage pod found
\* there is turned into a datastore by a placement query for a clone of a
\* virtual machine of the source vApp (getVmref, findDatastore)
calculateDatastore(vapp, inv, env) ==
  LET default == Obj("DefaultDatastore", "")
      named == Obj("Datastore", vapp.datastore)
      pod == Obj("StoragePod", vapp.datastore)
      source == Obj("VirtualApp", vapp.vAppToClone[1].name)
      child == IF pod \in inv THEN pod ELSE NilObj
  IN IF vapp.datastore = ""
       THEN IF default \in inv THEN Ok([Looked(vapp, default) EXCEPT !.datastoreRef = default])
            ELSE Err(Looked(vapp, default))
     ELSE IF named \in inv THEN Ok([Looked(vapp, named) EXCEPT !.datastoreRef = named])
     ELSE IF child = NilObj THEN Err(Looked(Looked(vapp, named), pod))
     ELSE IF child.kind = "StoragePod"
       THEN LET v == Looked(Looked(Looked(vapp, named), pod), source)
            IN IF source \notin inv \/ ~env.placement THEN Err(v)
               ELSE Ok([v EXCEPT !.datastoreRef = Obj("Datastore", "recommended")])
     ELSE Ok([Looked(Looked(vapp, named), pod) EXCEPT !.datastoreRef = child])

\* (the network labels taken as they are, without a lookup)
RECURSIVE ResolveNoNetworks(_, _, _, _, _)
ResolveNoNetworks(vapp, inv, networkMappings, i, pairs) ==
  IF i > Len(networkMappings) THEN [err |-> FALSE, vapp |-> vapp, pairs |-> pairs]
  ELSE ResolveNoNetworks(vapp, inv, networkMappings, i + 1,
         Append(pairs, [Source |-> Obj("Network", networkMappings[i].srcNetLabel),
                        Destination |-> Obj("Network", networkMappings[i].destNetLabel)]))

\* the loop of cloneVApp over the network mappings: source, then destination
RECURSIVE ResolveNetworks(_, _, _, _, _)
ResolveNetworks(vapp, inv, networkMappings, i, pairs) ==
  IF i > Len(networkMappings) THEN [err |-> FALSE, vapp |-> vapp, pairs |-> pairs]
  ELSE LET src == Obj("Network", networkMappings[i].srcNetLabel)
           dest == Obj("Network", networkMappings[i].destNetLabel)
       IN IF src \notin inv THEN [err |-> TRUE, vapp |-> Looked(vapp, src), pairs |-> pairs]
          ELSE IF dest \notin inv
            THEN [err |-> TRUE, vapp |-> Looked(Looked(vapp, src), dest), pairs |-> pairs]
          ELSE ResolveNetworks(Looked(Looked(vapp, src), dest), inv, networkMappings, i + 1,
                 Append(pairs, [Source |-> src, Destination |-> dest]))

\* (a clone request that always names the folder)
CloneRequestWithFolder(vapp, sourceVApp, networkMappingPairs) ==
  [op |-> "CloneVApp_Task", This |-> sourceVApp, Name |-> vapp.name,
   Target |-> vapp.resourcePoolObj,
   Spec |-> [Location |-> vapp.datastoreRef, NetworkMapping |-> networkMappingPairs,
             VmFolder |-> Ptr(vapp.folderObj)]]

\* the CloneVApp_Task request: the folder only if no parent vApp is specified
CloneRequest(vapp, sourceVApp, networkMappingPairs) ==
  [op |-> "CloneVApp_Task", This |-> sourceVApp, Name |-> vapp.name,
   Target |-> vapp.resourcePoolObj,
   Spec |-> [Location |-> vapp.datastoreRef, NetworkMapping |-> networkMappingPairs,
             VmFolder |-> IF vapp.parentVApp = "" THEN Ptr(vapp.folderObj) ELSE NilPtr]]

\* what vapp.create() leaves: the error, the vApp object and the inventory
Left(err, vapp, inv) == [err |-> err, vapp |-> vapp, inv |-> inv]
Container(vapp) == Obj("VirtualApp", getVAppPath(vapp.d))

\* env.clone is the inventory's answer to the request: refused at submission,
\* a task fault, done, or done with the new vApp not found by its path afterwards
cloneVApp(vapp, inv, env) ==
  LET ds == calculateDatastore(vapp, inv, env)
      source == Obj("VirtualApp", vapp.vAppToClone[1].name)
      nets == ResolveNetworks(Looked(ds.vapp, source), inv,
                              vapp.vAppToClone[1].networkMappings, 1, <<>>)
      sent == [nets.vapp EXCEPT !.requests = Append(@, CloneRequest(nets.vapp, source, nets.pairs))]
  IN IF ds.err THEN Left(TRUE, ds.vapp, inv)
     ELSE IF source \notin inv THEN Left(TRUE, Looked(ds.vapp, source), inv)
     ELSE IF nets.err THEN Left(TRUE, nets.vapp, inv)
     ELSE IF env.clone \in {"submit_err", "fault"} THEN Left(TRUE, sent, inv)
     ELSE IF env.clone = "lookup_err" THEN Left(TRUE, sent, inv \cup {Container(vapp)})
     ELSE Left(FALSE, [sent EXCEPT !.createdVApp = Container(vapp)], inv \cup {Container(vapp)})

Panic == [panic |-> "nil pointer dereference"]

\* the ResourceAllocationInfo that new() hands out is written through its
\* Reservation and Limit pointers: with these nil the write panics
createDefaultResourceAllocation(info) ==
  IF info.Reservation = NilPtr \/ info.Limit = NilPtr THEN Panic
  ELSE [Reservation |-> Ptr(1), Limit |-> Ptr(-1), Shares |-> Ptr([Level |-> "normal"]),
        ExpandableReservation |-> Ptr(TRUE)]

populateVAppResourceAllocationInfo(vapp, info) ==
  [vapp EXCEPT !.memory = createDefaultResourceAllocation(info),
               !.cpu = createDefaultResourceAllocation(info)]

\* env.create is the inventory's answer to CreateVApp
createVApp(vapp, inv, env) ==
  LET sent == [vapp EXCEPT !.requests =
                 Append(@, [op |-> "CreateVApp", Target |-> vapp.resourcePoolObj, Name |-> vapp.name,
                            MemoryAllocation |-> vapp.memory, CpuAllocation |-> vapp.cpu,
                            folder |-> vapp.folderObj])]
  IN IF env.create = "ok"
       THEN Left(FALSE, [sent EXCEPT !.createdVApp = Container(vapp)], inv \cup {Container(vapp)})
       ELSE Left(TRUE, sent, inv)

create(vapp, inv, env) ==
  IF Len(vapp.d.template_vapp) > 0 THEN cloneVApp(vapp, inv, env) ELSE createVApp(vapp, inv, env)

\* resourceVSphereVAppCreate from populateVAppResourceAllocationInfo to
\* vapp.create(): the stage it got to, what it returned, the vApp object and the
\* inventory it leaves
Outcome(stage, result, vapp, inv) == [stage |-> stage, result |-> result, vapp |-> vapp, inv |-> inv]
createContainer(d, inv, env) ==
  LET v1 == populateVAppResourceAllocationInfo(NewVApp(d), env.info)
      located == calculateLocation(v1, inv)
      made == create(located.vapp, inv, env)
  IN IF v1.memory = Panic THEN Outcome("populateVAppResourceAllocationInfo", "panic", NewVApp(d), inv)
     ELSE IF located.err THEN Outcome("calculateLocation", "err", located.vapp, inv)
     ELSE Outcome("create", IF made.err THEN "err" ELSE "ok", made.vapp, made.inv)

(* ---------------- state ---------------- *)
VARIABLES
  pc,            \* position of the running cycle, "idle" between cycles
  cyc,           \* kind of the running (or last) cycle: create, update, delete
  cycles,        \* number of cycles started
  result,        \* what the last cycle returned: none, running, ok, err, panic
  d_id,          \* the resource id in the persisted state ("" when unset)
  d_entity,      \* the "entity" set of the persisted state
  n_entity,      \* d.Get("entity") of the running cycle
  tmpl,          \* the running create cycle declares template_vapp
  descChange,    \* d.HasChange("description") of the running update cycle
  vAppEntities,  \* vapp.vAppEntities (create) or vappAddedEntities (update)
  rmIdx,         \* removeEntities: index of the entity being restored
  calls,         \* the remote calls the running (or last) cycle issued, in order
  cExists,       \* inventory: the container exists
  cPower,        \* inventory: the container's power state
  cConfig,       \* inventory: the container's vAppConfig.entityConfig, one record per child
  loc,           \* inventory: pool (or parent) path and folder path of every entity
  tasks,         \* inventory: the MoveIntoFolder tasks of the running (or last) cycle
  offHist,       \* what the last two powerOffVApp calls on the existing container returned
  okRun,         \* no cycle has returned an error so far
  rerun,         \* the running delete cycle follows a delete cycle that returned an error
                 \* after a move or the power-off had succeeded
  fn,            \* the function of the resource applied on its own ("none": the cycles run)
  arg,           \* the input it is applied to
  ret,           \* what it returned
  inst,          \* two resources side by side: the resource data and running cycle of each
  pools,         \* their inventory: the pool (or parent vApp) of every virtual machine
  made,          \* their inventory: the containers that exist
  turn           \* the resource whose cycle took the last step

vars == <<pc, cyc, cycles, result, d_id, d_entity, n_entity, tmpl, descChange,
          vAppEntities, rmIdx, calls, cExists, cPower, cConfig, loc, tasks, offHist, okRun,
          rerun, fn, arg, ret, inst, pools, made, turn>>

unit == <<fn, arg, ret>>
pair == <<inst, pools, made, turn>>
local == <<n_entity, tmpl, descChange, vAppEntities, rmIdx>>
remote == <<cExists, cPower, cConfig, loc, tasks>>

\* the tasks that have not reached a terminal state
Running(ts) == { t \in ts : t.state = "running" }

Home(id) == [pool |-> HomePool(id), folder |-> HomeFolder(id)]
Destroyed == [pool |-> "destroyed", folder |-> "destroyed"]

(* two resources of the provider, each with its own container *)
Containers == {"app", "web"}
\* the virtual machines either of them may declare, both at home in one pool
PairNames == {"a", "b"}
PairHome == HomePool(<<"a", entityInputVm>>)
NoInst ==
  [pc |-> "idle", cyc |-> "none", cycles |-> 0, result |-> "none", id |-> "", entity |-> {},
   new |-> {}, resolved |-> {}, rm |-> {}]
PairQuiescent ==
  /\ inst = [k \in Containers |-> NoInst]
  /\ pools = [e \in PairNames |-> PairHome]
  /\ made = {} /\ turn = "none"

NoArg == [kind |-> "none"]
NoRet == [kind |-> "none"]

\* nothing has run yet: no container, every entity at its home
Quiescent ==
  /\ pc = "idle" /\ cyc = "none" /\ cycles = 0 /\ result = "none"
  /\ d_id = "" /\ d_entity = {}
  /\ n_entity = {} /\ tmpl = FALSE /\ descChange = FALSE
  /\ vAppEntities = <<>> /\ rmIdx = 0 /\ calls = <<>>
  /\ cExists = FALSE /\ cPower = "off" /\ cConfig = {}
  /\ loc = [id \in Idents |-> Home(id)]
  /\ tasks = {} /\ offHist = <<>> /\ okRun = TRUE /\ rerun = FALSE

Init == Quiescent /\ PairQuiescent /\ fn = "none" /\ arg = NoArg /\ ret = NoRet

(* ---------------- the inventory's answers ---------------- *)
Call(op, target, list, res) == [op |-> op, target |-> target, list |-> list, res |-> res]

Children(cfg) == { c.Key : c \in cfg }
DefaultConfig(ref) == [Key |-> ref, StartOrder |-> vAppStartOrderMin, WaitingForGuest |-> NilPtr]

\* MoveIntoResourcePool(target, list) on the entity locations: an entity leaving the
\* container lands in the root VM folder, one entering it leaves its folder
MovedInto(l, target, refs) ==
  [id \in Idents |->
     IF RefOf(id) \in refs /\ l[id].pool # target
       THEN [pool |-> target,
             folder |-> IF target = VAppPath THEN VAppPath
                        ELSE IF l[id].folder = VAppPath THEN RootFolder ELSE l[id].folder]
       ELSE l[id]]

\* the container's entity configuration follows its children
ConfigOf(cfg, l) ==
  { c \in cfg : c.Key = TemplateKidRef \/ l[IdOfRef(c.Key)].pool = VAppPath }
  \cup { DefaultConfig(RefOf(id)) : id \in { i \in Idents : l[i].pool = VAppPath
                                                /\ RefOf(i) \notin Children(cfg) } }

\* UpdateConfig with an entity-config list: the list replaces the children's
\* configuration as a whole, a child it omits falls back to the default record;
\* a request without a list leaves the configuration alone
Reconfigured(cfg, entityConfig) ==
  IF Len(entityConfig) = 0 THEN cfg
  ELSE { IF \E i \in 1..Len(entityConfig) : entityConfig[i].Key = c.Key
           THEN entityConfig[CHOOSE i \in 1..Len(entityConfig) : entityConfig[i].Key = c.Key]
           ELSE DefaultConfig(c.Key) : c \in cfg }

\* the references a move can act on: existing entities
ValidRefs(l) == { RefOf(id) : id \in { i \in Idents : l[i] # Destroyed } }

\* FindByInventoryPath
PoolFound(path) == path \in PoolPaths \/ (path = VAppPath /\ cExists)
FolderFound(path) == path \in FolderPaths \/ (path = VAppPath /\ cExists)

(* ---------------- steps shared by the cycles ---------------- *)
\* a cycle returns: the cycle's locals are gone
Return(res) ==
  /\ pc' = "idle" /\ result' = res /\ okRun' = (okRun /\ res = "ok")
  /\ n_entity' = {} /\ tmpl' = FALSE /\ descChange' = FALSE
  /\ vAppEntities' = <<>> /\ rmIdx' = 0

\* (an error return that drops the id)
AbortClearing(res) ==
  /\ Return(res)
  /\ d_id' = ""
  /\ d_entity' = d_entity

\* a cycle returns an error. The resource data of a failed update is saved as it
\* stands (the declared set as d.Get sees it); a failed create has no id, so nothing
\* of it is saved; a failed delete keeps the state it was given
Abort(res) ==
  /\ Return(res)
  /\ d_id' = d_id
  /\ d_entity' = IF cyc = "update" THEN n_entity ELSE d_entity

IdOfEntity(v) == CHOOSE id \in Idents : id[1] = v.name /\ getEntityType(id[2]) = v.entityType

\* (the paths taken after the move instead of before it)
ResolvedAfterMove(vs, l) ==
  [i \in 1..Len(vs) |->
     [vs[i] EXCEPT !.entityMoid = MoidOf(vs[i].name, vs[i].entityType),
                   !.entityFolderPath = VAppPath,
                   !.entityRPPath = VAppPath]]

\* addEntities, the loop: every entity resolved, its moid, its folder path and its
\* pool (or parent) path recorded as they are now
ResolvedEntities(vs, l) ==
  [i \in 1..Len(vs) |->
     [vs[i] EXCEPT !.entityMoid = MoidOf(vs[i].name, vs[i].entityType),
                   !.entityFolderPath = l[IdOfEntity(vs[i])].folder,
                   !.entityRPPath = l[IdOfEntity(vs[i])].pool]]

EntityList(vs) == { [Type |-> vs[i].entityType, Value |-> vs[i].entityMoid] : i \in 1..Len(vs) }

\* (addEntities moving each entity as soon as it is resolved: the entities in
\* front of the one that does not resolve are moved)
addEntitiesPartial(vs, next) ==
  \E out \in {"notfound", "err", "ok"} :
    LET resolved == [i \in 1..Len(vs) |->
                       [vs[i] EXCEPT !.entityMoid = MoidOf(vs[i].name, vs[i].entityType),
                                     !.entityFolderPath = loc[IdOfEntity(vs[i])].folder,
                                     !.entityRPPath = loc[IdOfEntity(vs[i])].pool]]
        entityList == { [Type |-> resolved[i].entityType, Value |-> resolved[i].entityMoid] :
                          i \in 1..Len(resolved) }
        first == {[Type |-> resolved[1].entityType, Value |-> resolved[1].entityMoid]}
    IN /\ entityList \subseteq ValidRefs(loc)
       /\ IF out = "notfound"
            THEN /\ Abort("err")
                 /\ calls' = Append(calls, Call("MoveIntoResourcePool", VAppPath, first, "ok"))
                 /\ loc' = MovedInto(loc, VAppPath, first)
                 /\ cConfig' = ConfigOf(cConfig, loc')
                 /\ UNCHANGED <<cExists, cPower, tasks>>
            ELSE /\ calls' = Append(calls, Call("MoveIntoResourcePool", VAppPath, entityList, out))
                 /\ IF out = "err"
                      THEN /\ Abort("err")
                           /\ UNCHANGED remote
                      ELSE /\ loc' = MovedInto(loc, VAppPath, entityList)
                           /\ cConfig' = ConfigOf(cConfig, loc')
                           /\ vAppEntities' = resolved
                           /\ pc' = next
                           /\ UNCHANGED <<result, okRun, d_id, d_entity, n_entity, tmpl, descChange,
                                          rmIdx, cExists, cPower, tasks>>

\* addEntities(vs): resolve all, then one MoveIntoResourcePool into the container
addEntities(vs, next) ==
  \E out \in {"notfound", "err", "ok"} :
    LET resolved == ResolvedEntities(vs, loc)
        entityList == EntityList(resolved)
    IN /\ out # "notfound" => entityList \subseteq ValidRefs(loc)
       /\ IF out = "notfound"
            THEN /\ Abort("err")
                 /\ UNCHANGED <<calls, remote>>
            ELSE /\ calls' = Append(calls, Call("MoveIntoResourcePool", VAppPath, entityList, out))
                 /\ IF out = "err"
                      THEN /\ Abort("err")
                           /\ UNCHANGED remote
                      ELSE /\ loc' = MovedInto(loc, VAppPath, entityList)
                           /\ cConfig' = ConfigOf(cConfig, loc')
                           /\ vAppEntities' = resolved
                           /\ pc' = next
                           /\ UNCHANGED <<result, okRun, d_id, d_entity, n_entity, tmpl, descChange,
                                          rmIdx, cExists, cPower, tasks>>

\* (updateVApp with its error dropped by the caller)
updateVAppUnchecked(entityConfig, annotated, next) ==
  \E out \in {"err", "ok"} :
    LET keys == { entityConfig[i].Key : i \in 1..Len(entityConfig) }
    IN /\ out = "ok" => keys \subseteq Children(cConfig)
       /\ calls' = Append(calls, [op |-> "UpdateConfig", target |-> VAppPath, list |-> keys,
                                  res |-> out, entityConfig |-> entityConfig,
                                  annotation |-> annotated])
       /\ cConfig' = IF out = "ok" THEN Reconfigured(cConfig, entityConfig) ELSE cConfig
       /\ pc' = next
       /\ UNCHANGED <<result, okRun, d_id, d_entity, local, cExists, cPower, loc, tasks>>

\* updateVApp(configSpec): one UpdateConfig call. The inventory refuses a record
\* whose key is no child of the container
updateVApp(entityConfig, annotated, next) ==
  \E out \in {"err", "ok"} :
    LET keys == { entityConfig[i].Key : i \in 1..Len(entityConfig) }
    IN /\ out = "ok" => keys \subseteq Children(cConfig)
       /\ calls' = Append(calls, [op |-> "UpdateConfig", target |-> VAppPath, list |-> keys,
                                  res |-> out, entityConfig |-> entityConfig,
                                  annotation |-> annotated])
       /\ IF out = "err"
            THEN /\ Abort("err")
                 /\ UNCHANGED remote
            ELSE /\ cConfig' = Reconfigured(cConfig, entityConfig)
                 /\ pc' = next
                 /\ UNCHANGED <<result, okRun, d_id, d_entity, local, cExists, cPower, loc, tasks>>

(* ---------------- power ---------------- *)
\* powerOnVApp powers on only a container whose entity configuration is not empty
HasNoGate(entityConfig) == TRUE
HasEntitiesToPowerOn(entityConfig) == Cardinality(entityConfig) > 0

\* the task faults powerOnVApp and powerOffVApp return as success
NoFaultIgnored(fault) == FALSE
EveryFaultIgnored(fault) == TRUE
PowerOnFaultIgnored(fault) == fault = "InvalidPowerState"
PowerOffFaultIgnored(fault) == fault = "InvalidPowerState"

\* what PowerOn can answer: "err" the call fails, "ok", or the task ends with a
\* fault; a container already started (by this or by another client) answers
\* InvalidPowerState, an empty one is refused
PowerOnAnswers ==
  IF cConfig = {} THEN {"err", "fault"}
  ELSE IF cPower = "on" THEN {"InvalidPowerState"}
  ELSE {"err", "ok", "InvalidPowerState", "fault"}

\* what PowerOff can answer: a stopped container answers InvalidPowerState
PowerOffAnswers ==
  IF cPower = "off" THEN {"InvalidPowerState"} ELSE {"err", "ok", "fault"}

\* the error a power function returns for an answer: "" is nil
PowerOnError(answer) ==
  IF answer = "ok" \/ (answer # "err" /\ PowerOnFaultIgnored(answer)) THEN "" ELSE answer
PowerOffError(answer) ==
  IF answer = "ok" \/ (answer # "err" /\ PowerOffFaultIgnored(answer)) THEN "" ELSE answer

(* ---------------- the create cycle ---------------- *)
\* resourceVSphereVAppCreate up to calculateLocation: the vApp object is built from
\* the declared input and the location is resolved; no remote change so far.
\* createDefaultResourceAllocation writes through the Reservation and Limit
\* pointers of a ResourceAllocationInfo it has just allocated: with these nil the
\* cycle ends in a panic
CreateBegin ==
  /\ UNCHANGED <<unit, pair>>
  /\ pc = "idle" /\ d_id = "" /\ cycles < MaxCycles /\ Running(tasks) = {}
  /\ cycles' = cycles + 1 /\ cyc' = "create" /\ calls' = <<>> /\ tasks' = {} /\ rerun' = FALSE
  /\ UNCHANGED <<d_id, d_entity, cExists, cPower, cConfig, loc, offHist>>
  /\ \E declared \in DeclaredLists, template \in BOOLEAN,
        out \in {"construct_err", "alloc_panic", "location_err", "ok"} :
       IF out = "ok"
         THEN /\ pc' = "create" /\ result' = "running" /\ okRun' = okRun
              /\ n_entity' = NewEntitySet(declared, {})
              /\ vAppEntities' = populateVAppEntities(List(n_entity'))
              /\ tmpl' = template
              /\ UNCHANGED <<descChange, rmIdx>>
         ELSE Return(IF out = "alloc_panic" THEN "panic" ELSE "err")

\* vapp.create(): cloneVApp when a template is declared, createVApp otherwise.
\* A name already in the inventory is refused. A clone brings the template's
\* children with it
CreateContainer ==
  /\ UNCHANGED <<unit, pair>>
  /\ pc = "create"
  /\ UNCHANGED <<cyc, cycles, rerun>>
  /\ \E out \in {"resolve_err", "err", "fault", "lookup_err", "ok"}, kids \in BOOLEAN :
       /\ out \in {"resolve_err", "fault", "lookup_err"} => tmpl
       /\ kids => tmpl /\ out \in {"ok", "lookup_err"}
       /\ cExists => out \in {"resolve_err", "err", "fault"}
       /\ calls' = IF out = "resolve_err" THEN calls
                   ELSE Append(calls, Call(IF tmpl THEN "CloneVApp" ELSE "CreateVApp", VAppPath, {},
                                           IF out = "lookup_err" THEN "ok" ELSE out))
       /\ IF out \in {"ok", "lookup_err"}
            THEN /\ cExists' = TRUE /\ cPower' = "off"
                 /\ cConfig' = IF kids THEN {DefaultConfig(TemplateKidRef)} ELSE {}
                 /\ offHist' = <<>>
                 /\ UNCHANGED <<loc, tasks>>
            ELSE UNCHANGED <<remote, offHist>>
       /\ IF out = "ok"
            THEN /\ pc' = "attach"
                 /\ UNCHANGED <<result, okRun, d_id, d_entity, local>>
            ELSE Abort("err")

\* the declared entities are attached, when there are any
CreateAttach ==
  /\ UNCHANGED <<unit, pair>>
  /\ pc = "attach"
  /\ UNCHANGED <<cyc, cycles, rerun, offHist>>
  /\ IF Len(vAppEntities) > 0
       THEN addEntities(vAppEntities, "reconfig")
       ELSE /\ pc' = "reconfig"
            /\ UNCHANGED <<result, okRun, d_id, d_entity, local, calls, remote>>

\* the annotation and the entity configuration are pushed in one UpdateConfig
CreateReconfig ==
  /\ UNCHANGED <<unit, pair>>
  /\ pc = "reconfig"
  /\ UNCHANGED <<cyc, cycles, rerun, offHist>>
  /\ updateVApp(IF Len(vAppEntities) > 0 THEN createEntityConfigInfo(vAppEntities) ELSE <<>>,
                TRUE, "poweron")

\* powerOnVApp: the container's entity configuration is read back; PowerOn is
\* called only when it is not empty
CreatePowerOn ==
  /\ UNCHANGED <<unit, pair>>
  /\ pc = "poweron"
  /\ UNCHANGED <<cyc, cycles, rerun, offHist, cExists, cConfig, loc, tasks>>
  /\ \E read \in {"err", "ok"} :
       LET rd == Call("RetrieveOne", VAppPath, Children(cConfig), read)
       IN IF read = "err"
            THEN /\ calls' = Append(calls, rd)
                 /\ Abort("err")
                 /\ UNCHANGED cPower
            ELSE IF HasEntitiesToPowerOn(cConfig)
              THEN \E answer \in PowerOnAnswers :
                     /\ calls' = calls \o <<rd, Call("PowerOn", VAppPath, {}, answer)>>
                     /\ cPower' = IF answer \in {"ok", "InvalidPowerState"} THEN "on" ELSE cPower
                     /\ IF PowerOnError(answer) = ""
                          THEN /\ pc' = "finish"
                               /\ UNCHANGED <<result, okRun, d_id, d_entity, local>>
                          ELSE Abort("err")
              ELSE /\ calls' = Append(calls, rd)
                   /\ pc' = "finish"
                   /\ UNCHANGED <<result, okRun, d_id, d_entity, local, cPower>>

\* the computed fields are written back, the id is set, and the resource is read:
\* a container the read does not find clears the id again, a failing property
\* read is returned as the cycle's error
CreateFinish ==
  /\ UNCHANGED <<unit, pair>>
  /\ pc = "finish"
  /\ UNCHANGED <<cyc, cycles, rerun, offHist, remote>>
  /\ d_entity' = backPopulateEntiy(n_entity, vAppEntities)
  /\ \E read \in {"err", "ok"} :
       /\ calls' = Append(calls, Call("RetrieveOne", VAppPath, {}, read))
       /\ d_id' = IF cExists THEN VAppPath ELSE ""
       /\ Return(IF read = "ok" THEN "ok" ELSE "err")

(* ---------------- detach ---------------- *)
\* the delta of the running update cycle
Delta == EntityDiff(d_entity, n_entity)

\* the set removeEntities is given, as a list: the removed entities of an update,
\* the whole stored set of a delete
RemoveList == IF cyc = "update" THEN List(Delta.removed) ELSE List(d_entity)
AfterRemoveNoPowerOff == IF cyc = "update" THEN "u_reconf" ELSE "destroy"
AfterRemove == IF cyc = "update" THEN "u_reconf" ELSE "poweroff"
RemovedRef(entity) == [Type |-> getEntityType(entity.type), Value |-> entity.moid]
\* the places removeEntities moves an entity back to: the recorded ones
RemoveFolderPathRoot(entity) == RootFolder
\* (every entity sent to the cluster's root pool instead of its recorded one)
RemovePoolPathRoot(entity) == "/dc/host/c1/Resources"
RemovePoolPath(entity) == entity.resourcepool_path
RemoveFolderPath(entity) == entity.folder_path

\* removeEntities, first half of a round: the recorded resource pool is looked up
\* and the entity is moved into it. FindByInventoryPath answers nil for a path that
\* names nothing and can fail for one that does
RemovePool ==
  /\ UNCHANGED <<unit, pair>>
  /\ pc = "rm_pool"
  /\ UNCHANGED <<cyc, cycles, rerun, offHist>>
  /\ LET entity == RemoveList[rmIdx]
         entityRPPath == RemovePoolPath(entity)
         entityList == {RemovedRef(entity)}
     IN IF ~PoolFound(entityRPPath)
          THEN /\ Abort("err")
               /\ UNCHANGED <<calls, remote>>
          ELSE \E out \in {"lookup_err", "err", "ok"} :
                 /\ out = "ok" => entityList \subseteq ValidRefs(loc)
                 /\ calls' = Append(calls, IF out = "lookup_err"
                                             THEN Call("FindByInventoryPath", entityRPPath, {}, "err")
                                             ELSE Call("MoveIntoResourcePool", entityRPPath, entityList, out))
                 /\ IF out # "ok"
                      THEN /\ Abort("err")
                           /\ UNCHANGED remote
                      ELSE /\ loc' = MovedInto(loc, entityRPPath, entityList)
                           /\ cConfig' = ConfigOf(cConfig, loc')
                           /\ pc' = "rm_folder"
                           /\ UNCHANGED <<result, okRun, d_id, d_entity, local, cExists, cPower, tasks>>

\* second half: the recorded folder is looked up and MoveIntoFolder_Task is
\* submitted; the task is not waited for. A path that names no folder is refused
RemoveFolder ==
  /\ UNCHANGED <<unit, pair>>
  /\ pc = "rm_folder"
  /\ UNCHANGED <<cyc, cycles, rerun, offHist, cExists, cPower, cConfig, loc>>
  /\ LET entity == RemoveList[rmIdx]
         entityFolderPath == RemoveFolderPath(entity)
         entityList == {RemovedRef(entity)}
     IN IF ~FolderFound(entityFolderPath)
          THEN /\ Abort("err")
               /\ UNCHANGED <<calls, tasks>>
          ELSE \E out \in {"lookup_err", "err", "ok"} :
                 /\ out = "ok" => entityFolderPath \in FolderPaths
                 /\ calls' = Append(calls, IF out = "lookup_err"
                                             THEN Call("FindByInventoryPath", entityFolderPath, {}, "err")
                                             ELSE Call("MoveIntoFolder_Task", entityFolderPath, entityList, out))
                 /\ IF out # "ok"
                      THEN /\ Abort("err")
                           /\ UNCHANGED tasks
                      ELSE /\ tasks' = tasks \cup {[ref |-> RemovedRef(entity), folder |-> entityFolderPath,
                                                      state |-> "running"]}
                           /\ IF rmIdx < Len(RemoveList)
                                THEN /\ rmIdx' = rmIdx + 1 /\ pc' = "rm_pool"
                                ELSE /\ rmIdx' = 0 /\ pc' = AfterRemove
                           /\ UNCHANGED <<result, okRun, d_id, d_entity, n_entity, tmpl, descChange,
                                          vAppEntities>>

\* the inventory finishes a submitted MoveIntoFolder task, with or without a fault
FolderTaskEnd ==
  /\ UNCHANGED <<unit, pair>>
  /\ UNCHANGED <<pc, cyc, cycles, rerun, result, okRun, d_id, d_entity, local, calls, cExists,
                 cPower, cConfig, offHist>>
  /\ \E t \in Running(tasks), ok \in BOOLEAN :
       /\ tasks' = (tasks \ {t}) \cup {[t EXCEPT !.state = IF ok THEN "success" ELSE "error"]}
       /\ loc' = IF ok /\ t.ref \in ValidRefs(loc) /\ loc[IdOfRef(t.ref)].pool # VAppPath
                   THEN [loc EXCEPT ![IdOfRef(t.ref)].folder = t.folder]
                   ELSE loc

(* ---------------- the update cycle ---------------- *)
\* resourceVSphereVAppUpdate up to the diff: the container is looked up by its path
\* (the sample inputs: the description changes in updates that declare the stored
\* entity set again)
UpdateBegin ==
  /\ UNCHANGED <<unit, pair>>
  /\ pc = "idle" /\ d_id # "" /\ cycles < MaxCycles /\ Running(tasks) = {}
  /\ cycles' = cycles + 1 /\ cyc' = "update" /\ calls' = <<>> /\ tasks' = {} /\ rerun' = FALSE
  /\ UNCHANGED <<d_id, cExists, cPower, cConfig, loc, offHist>>
  /\ \E declared \in DeclaredLists, dc \in BOOLEAN, out \in {"construct_err", "ok"} :
       /\ dc => ~HasChangeEntity(d_entity, NewEntitySet(declared, d_entity))
       /\ IF out = "ok" /\ cExists
            THEN /\ pc' = "u_attach" /\ result' = "running" /\ okRun' = okRun
                 /\ n_entity' = NewEntitySet(declared, d_entity)
                 /\ descChange' = dc
                 /\ vAppEntities' = <<>> /\ rmIdx' = 1
                 /\ UNCHANGED <<d_entity, tmpl>>
            ELSE /\ Return("err")
                 /\ d_entity' = NewEntitySet(declared, d_entity)

\* the added entities are attached, when there are any
UpdateAttach ==
  /\ UNCHANGED <<unit, pair>>
  /\ pc = "u_attach"
  /\ UNCHANGED <<cyc, cycles, rerun, offHist>>
  /\ LET next == IF Delta.removed # {} THEN "rm_pool" ELSE "u_reconf"
     IN IF Delta.added # {}
          THEN addEntities(populateVAppEntities(List(Delta.added)), next)
          ELSE /\ pc' = next
               /\ UNCHANGED <<result, okRun, d_id, d_entity, local, calls, remote>>

\* the entities whose configuration the update pushes: the modified ones, then the
\* added ones
ModifiedEntities == populateVAppEntities(Delta.modified) \o vAppEntities

\* one UpdateConfig when an entity was added or modified or the description changed
UpdateReconfig ==
  /\ UNCHANGED <<unit, pair>>
  /\ pc = "u_reconf"
  /\ UNCHANGED <<cyc, cycles, rerun, offHist>>
  /\ IF Len(ModifiedEntities) > 0 \/ descChange
       THEN updateVApp(IF Len(ModifiedEntities) > 0 THEN createEntityConfigInfo(ModifiedEntities)
                       ELSE <<>>, descChange, "u_finish")
       ELSE /\ pc' = "u_finish"
            /\ UNCHANGED <<result, okRun, d_id, d_entity, local, calls, remote>>

\* the computed fields of the added and modified entities are written back
UpdateFinish ==
  /\ UNCHANGED <<unit, pair>>
  /\ pc = "u_finish"
  /\ UNCHANGED <<cyc, cycles, rerun, offHist, calls, remote, d_id>>
  /\ d_entity' = IF Len(ModifiedEntities) > 0 THEN backPopulateEntiy(n_entity, ModifiedEntities)
                 ELSE n_entity
  /\ Return("ok")

(* ---------------- the delete cycle ---------------- *)
\* the cycle that has just returned is a delete cycle that failed after one of its
\* moves or its power-off had succeeded
AbortedHalfway ==
  /\ cyc = "delete" /\ result = "err"
  /\ \E i \in 1..Len(calls) :
       calls[i].res = "ok" /\ calls[i].op \in {"MoveIntoResourcePool", "MoveIntoFolder_Task", "PowerOff"}

\* resourceVSphereVAppDelete: the container is looked up; the stored entities are
\* detached first
DeleteBegin ==
  /\ UNCHANGED <<unit, pair>>
  /\ pc = "idle" /\ d_id # "" /\ cycles < MaxCycles /\ Running(tasks) = {}
  /\ cycles' = cycles + 1 /\ cyc' = "delete" /\ calls' = <<>> /\ tasks' = {}
  /\ rerun' = AbortedHalfway
  /\ UNCHANGED <<d_id, d_entity, cExists, cPower, cConfig, loc, offHist>>
  /\ \E out \in {"construct_err", "ok"} :
       IF out = "ok" /\ cExists
         THEN /\ pc' = IF d_entity # {} THEN "rm_pool" ELSE "poweroff"
              /\ result' = "running" /\ okRun' = okRun
              /\ rmIdx' = IF d_entity # {} THEN 1 ELSE 0
              /\ UNCHANGED <<n_entity, tmpl, descChange, vAppEntities>>
         ELSE Return("err")

LastTwo(s) == IF Len(s) > 2 THEN Tail(s) ELSE s

\* powerOffVApp: PowerOff is always called
DeletePowerOff ==
  /\ UNCHANGED <<unit, pair>>
  /\ pc = "poweroff"
  /\ UNCHANGED <<cyc, cycles, rerun, cExists, cConfig, loc, tasks>>
  /\ \E answer \in PowerOffAnswers :
       /\ calls' = Append(calls, Call("PowerOff", VAppPath, {}, answer))
       /\ cPower' = IF answer = "ok" THEN "off" ELSE cPower
       /\ offHist' = LastTwo(Append(offHist, PowerOffError(answer)))
       /\ IF PowerOffError(answer) = ""
            THEN /\ pc' = "destroy"
                 /\ UNCHANGED <<result, okRun, d_id, d_entity, local>>
            ELSE Abort("err")

\* destroyVApp, then the id is cleared. What is still inside the container is
\* destroyed with it
DeleteDestroy ==
  /\ UNCHANGED <<unit, pair>>
  /\ pc = "destroy"
  /\ UNCHANGED <<cyc, cycles, rerun, offHist, tasks>>
  /\ \E out \in {"err", "fault", "ok"} :
       /\ calls' = Append(calls, Call("Destroy", VAppPath, {}, out))
       /\ IF out = "ok"
            THEN /\ cExists' = FALSE /\ cPower' = "off" /\ cConfig' = {}
                 /\ loc' = [id \in Idents |-> IF loc[id].pool = VAppPath THEN Destroyed ELSE loc[id]]
                 /\ d_id' = "" /\ d_entity' = {}
                 /\ Return("ok")
            ELSE /\ Abort("err")
                 /\ UNCHANGED <<cExists, cPower, cConfig, loc>>

Next ==
  \/ CreateBegin \/ CreateContainer \/ CreateAttach \/ CreateReconfig
  \/ CreatePowerOn \/ CreateFinish
  \/ UpdateBegin \/ UpdateAttach \/ UpdateReconfig \/ UpdateFinish
  \/ RemovePool \/ RemoveFolder \/ FolderTaskEnd
  \/ DeleteBegin \/ DeletePowerOff \/ DeleteDestroy

Spec == Init /\ [][Next]_vars

(* ---------------- the functions of the resource applied on their own ---------------- *)
\* the inputs: a value handed to the validators; a declaration of the location
\* attributes with an inventory and its answers; the declaration a container was
\* created from with the declaration a later cycle runs with
ValidatorValues ==
  {"", "vm", "vapp", "VirtualMachine", "VirtualApp", "VM", "none", "powerOn", "powerOff",
   "guestShutdown", "suspend", "poweron", "shutdown"}

NetworkMappings ==
  { <<>>, <<[srcNetLabel |-> "n1", destNetLabel |-> "n2"]>>,
    <<[srcNetLabel |-> "n1", destNetLabel |-> "n2"], [srcNetLabel |-> "n3", destNetLabel |-> "n1"]>> }
Templates == { <<>> } \cup { <<[name |-> "tpl", networkMappings |-> m]>> : m \in NetworkMappings }
Declarations ==
  [name : {"app"}, datacenter : {"", "dc"}, datastore : {"", "ds1", "pod1"}, cluster : {"", "c1"},
   resource_pool : {"", "rp1"}, folder : {"", "f1"}, parent_vapp : {"", "p1"},
   template_vapp : Templates]

FullInventory ==
  { Obj("VirtualApp", "p1"), Obj("ResourcePool", "rp1"), Obj("ResourcePool", "*c1/Resources"),
    Obj("DefaultResourcePool", ""), Obj("Folder", "dc/vm/f1"), Obj("DefaultDatastore", ""),
    Obj("Datastore", "ds1"), Obj("StoragePod", "pod1"), Obj("VirtualApp", "tpl"),
    Obj("Network", "n1"), Obj("Network", "n2"), Obj("Network", "n3") }
\* the full inventory, and the inventories that lack one object
Inventories == { FullInventory } \cup { FullInventory \ {o} : o \in FullInventory }

NilInfo == [Reservation |-> NilPtr, Limit |-> NilPtr]
ZeroInfo == [Reservation |-> Ptr(0), Limit |-> Ptr(0)]
\* the answers that are never asked for are held at their first value
Envs(d) ==
  { e \in [info : {NilInfo, ZeroInfo}, clone : {"ok", "submit_err", "fault", "lookup_err"},
           create : {"ok", "err"}, placement : BOOLEAN] :
      IF Len(d.template_vapp) > 0 THEN e.create = "ok"
      ELSE e.clone = "ok" /\ e.placement }

Identities == [name : {"app", "web"}, folder : {"", "f1"}, parent_vapp : {"", "p1"}]
LookupCycles == {"update", "read", "delete"}

\* what a read cycle meets: the stored entity list and uuid, and the answers of
\* the client, the finder and the property collector
StoredLists == { {}, {WithComputed([name |-> "a", type |-> entityInputVm, start_order |-> vAppStartOrderMin,
                                    waiting_for_guest |-> FALSE],
                                   "vm-a", "/dc/vm/f1", "/dc/host/c1/Resources")} }
Uuids == {"", "u1", "u2"}
VAppPaths == { getVAppPath(i) : i \in Identities }
ReadEnvs ==
  [construct : {"err", "ok"}, find : {"err", "ok"}, vapps : {{}} \cup { {q} : q \in VAppPaths },
   retrieve : {"err", "ok"}, InstanceUuid : {"u1", "u2"}]

\* the vlan ranges validated: every text of these characters up to MaxRangeLen
RangeChars == {"0", "5", "9", "-", ",", " ", "a"}
VlanRanges == UNION { [1..n -> RangeChars] : n \in 0..MaxRangeLen }

UnitInputs ==
  { [kind |-> "validate", v |-> v] : v \in ValidatorValues }
  \cup { [kind |-> "create", d |-> x[1], inv |-> x[2], env |-> e] :
           x \in Declarations \X Inventories, e \in UNION { Envs(d) : d \in Declarations } }
  \cup { [kind |-> "lookup", created |-> x[1], cycle |-> x[2], declared |-> x[3]] :
           x \in Identities \X LookupCycles \X Identities }
  \cup { [kind |-> "vlan", vlanRange |-> r] : r \in VlanRanges }
  \cup { [kind |-> "read", d |-> ResourceData(x[1], getVAppPath(x[1]), x[2], x[3]), env |-> x[4]] :
           x \in Identities \X StoredLists \X Uuids \X ReadEnvs }

\* the attributes of the container are not ForceNew: an update may run with a
\* declaration that differs in them; read and delete run with the saved ones
ValidInput(a) ==
  /\ a.kind = "create" => a.env \in Envs(a.d)
  /\ a.kind = "lookup" => (a.cycle = "update" \/ a.declared = a.created)

UnitInit == Quiescent /\ PairQuiescent /\ fn = "none" /\ arg \in { a \in UnitInputs : ValidInput(a) } /\ ret = NoRet

cycleState == <<pc, cyc, cycles, result, d_id, d_entity, n_entity, tmpl, descChange,
                vAppEntities, rmIdx, calls, cExists, cPower, cConfig, loc, tasks, offHist, okRun,
                rerun>>

Apply(f, k, r) ==
  /\ fn = "none" /\ arg.kind = k
  /\ fn' = f /\ ret' = r
  /\ UNCHANGED <<arg, cycleState, pair>>

ApplyValidateEntityType == Apply("validateEntityType", "validate", validateEntityType(arg.v, "type"))
ApplyGetEntityType == Apply("getEntityType", "validate", [entityType |-> getEntityType(arg.v)])
ApplyValidateStartAction == Apply("validateStartAction", "validate", validateStartAction(arg.v, "start_action"))
ApplyValidateStopAction == Apply("validateStopAction", "validate", validateStopAction(arg.v, "stop_action"))
ApplyCalculateResourcePool ==
  Apply("calculateResourcePool", "create", calculateResourcePool(NewVApp(arg.d), arg.inv))
ApplyCreateContainer == Apply("createContainer", "create", createContainer(arg.d, arg.inv, arg.env))
\* d.SetId(getVAppPath(d)) of the create cycle, then getCreatedVApp of a later cycle
ApplyGetCreatedVApp ==
  Apply("getCreatedVApp", "lookup", [id |-> getVAppPath(arg.created), path |-> getVAppPath(arg.declared)])

ApplyValidateVlanRange == Apply("validateVlanRange", "vlan", validateVlanRange(arg.vlanRange, "vlan_range"))
ApplyRead == Apply("resourceVSphereVAppRead", "read", resourceVSphereVAppRead(arg.d, arg.env))

UnitNext ==
  \/ ApplyValidateEntityType \/ ApplyGetEntityType
  \/ ApplyValidateStartAction \/ ApplyValidateStopAction
  \/ ApplyCalculateResourcePool \/ ApplyCreateContainer \/ ApplyGetCreatedVApp
  \/ ApplyRead \/ ApplyValidateVlanRange

UnitSpec == UnitInit /\ [][UnitNext]_vars

(* ---------------- the cycles of two resources, interleaved ---------------- *)
\* The cycles above, once per resource and step by step at the remote calls that
\* move an entity or make and destroy a container; of an entity the name and its
\* recorded pool path are kept. Each container is known by its name.
MaxPairCycles == 2

Stored(name, rp) == [name |-> name, resourcepool_path |-> rp]
Names(S) == { x.name : x \in S }
\* d.Get("entity") for the declared names: a stored element keeps its computed
\* fields, a new one has none
PairNewSet(declared, state) ==
  { x \in state : x.name \in declared } \cup { Stored(e, NoPath) : e \in declared \ Names(state) }

PairStep(k, rec) ==
  /\ inst' = [inst EXCEPT ![k] = rec] /\ turn' = k
  /\ UNCHANGED <<cycleState, unit>>
\* the cycle of k returns res, leaving id and entity in the state
PairReturn(k, res, id, entity) ==
  PairStep(k, [inst[k] EXCEPT !.pc = "idle", !.result = res, !.id = id, !.entity = entity,
                              !.new = {}, !.resolved = {}, !.rm = {}])
\* an error return: a failed update saves the declared set, a failed create or
\* delete leaves the state as it was
PairAbort(k) ==
  PairReturn(k, "err", inst[k].id,
             IF inst[k].cyc = "update" THEN PairNewSet(inst[k].new, inst[k].entity)
             ELSE inst[k].entity)
PairBegin(k, cycle, next, declared, rm) ==
  PairStep(k, [inst[k] EXCEPT !.pc = next, !.cyc = cycle, !.cycles = @ + 1, !.result = "running",
                              !.new = declared, !.resolved = {}, !.rm = rm])

\* resourceVSphereVAppCreate up to vapp.create()
PairCreate(k) ==
  /\ inst[k].pc = "idle" /\ inst[k].id = "" /\ inst[k].cycles < MaxPairCycles
  /\ UNCHANGED pools
  /\ \E declared \in SUBSET PairNames, out \in {"err", "ok"} :
       /\ k \in made => out = "err"
       /\ IF out = "ok"
            THEN /\ made' = made \cup {k}
                 /\ PairBegin(k, "create", "attach", declared, {})
            ELSE /\ UNCHANGED made
                 /\ PairStep(k, [inst[k] EXCEPT !.cyc = "create", !.cycles = @ + 1, !.result = "err"])

\* addEntities: getEntityRef finds every entity of the batch by its name,
\* wherever it is, and one MoveIntoResourcePool moves them into the container
PairBatch(k) == IF inst[k].cyc = "create" THEN inst[k].new ELSE inst[k].new \ Names(inst[k].entity)
PairAttach(k) ==
  /\ inst[k].pc = "attach"
  /\ UNCHANGED made
  /\ LET next == IF inst[k].cyc = "update" /\ inst[k].rm # {} THEN "detach" ELSE "finish"
     IN IF PairBatch(k) = {}
          THEN /\ PairStep(k, [inst[k] EXCEPT !.pc = next])
               /\ UNCHANGED pools
          ELSE \E out \in {"err", "ok"} :
                 /\ out = "ok" => k \in made /\ \A e \in PairBatch(k) : pools[e] # "destroyed"
                 /\ IF out = "ok"
                      THEN /\ pools' = [e \in PairNames |-> IF e \in PairBatch(k) THEN k ELSE pools[e]]
                           /\ PairStep(k, [inst[k] EXCEPT !.pc = next,
                                             !.resolved = { Stored(e, pools[e]) : e \in PairBatch(k) }])
                      ELSE /\ UNCHANGED pools
                           /\ PairAbort(k)

\* removeEntities, one stored entity: the pool at its recorded path is looked up
\* and MoveIntoResourcePool moves the entity there
PairPoolFound(path) == path = PairHome \/ path \in made
PairDetach(k) ==
  /\ inst[k].pc = "detach"
  /\ UNCHANGED made
  /\ IF inst[k].rm = {}
       THEN /\ PairStep(k, [inst[k] EXCEPT !.pc = IF inst[k].cyc = "update" THEN "finish" ELSE "destroy"])
            /\ UNCHANGED pools
       ELSE \E x \in inst[k].rm, out \in {"err", "ok"} :
              /\ out = "ok" => PairPoolFound(x.resourcepool_path) /\ pools[x.name] # "destroyed"
              /\ IF out = "ok"
                   THEN /\ pools' = [pools EXCEPT ![x.name] = x.resourcepool_path]
                        /\ PairStep(k, [inst[k] EXCEPT !.rm = @ \ {x}])
                   ELSE /\ UNCHANGED pools
                        /\ PairAbort(k)

\* updateVApp, powerOnVApp (create), backPopulateEntiy, and for a create SetId
PairFinish(k) ==
  /\ inst[k].pc = "finish"
  /\ UNCHANGED <<pools, made>>
  /\ \E out \in {"err", "ok"} :
       /\ out = "ok" => k \in made
       /\ IF out = "ok"
            THEN PairReturn(k, "ok", k,
                   { x \in inst[k].entity : x.name \in inst[k].new \ Names(inst[k].resolved) }
                   \cup inst[k].resolved)
            ELSE PairAbort(k)

\* resourceVSphereVAppUpdate up to the diff
PairUpdate(k) ==
  /\ inst[k].pc = "idle" /\ inst[k].id # "" /\ inst[k].cycles < MaxPairCycles
  /\ UNCHANGED <<pools, made>>
  /\ \E declared \in SUBSET PairNames :
       IF k \in made
         THEN PairBegin(k, "update", "attach", declared,
                        { x \in inst[k].entity : x.name \notin declared })
         ELSE PairStep(k, [inst[k] EXCEPT !.cyc = "update", !.cycles = @ + 1, !.result = "err",
                                          !.entity = PairNewSet(declared, @)])

\* resourceVSphereVAppDelete up to removeEntities
PairDelete(k) ==
  /\ inst[k].pc = "idle" /\ inst[k].id # "" /\ inst[k].cycles < MaxPairCycles
  /\ UNCHANGED <<pools, made>>
  /\ IF k \in made
       THEN PairBegin(k, "delete", "detach", {}, inst[k].entity)
       ELSE PairStep(k, [inst[k] EXCEPT !.cyc = "delete", !.cycles = @ + 1, !.result = "err"])

\* powerOffVApp and destroyVApp: the children still in the container go with it
PairDestroy(k) ==
  /\ inst[k].pc = "destroy"
  /\ \E out \in {"err", "ok"} :
       IF out = "ok"
         THEN /\ made' = made \ {k}
              /\ pools' = [e \in PairNames |-> IF pools[e] = k THEN "destroyed" ELSE pools[e]]
              /\ PairReturn(k, "ok", "", {})
         ELSE /\ UNCHANGED <<pools, made>>
              /\ PairAbort(k)

PairNext ==
  \E k \in Containers :
    \/ PairCreate(k) \/ PairAttach(k) \/ PairDetach(k) \/ PairFinish(k)
    \/ PairUpdate(k) \/ PairDelete(k) \/ PairDestroy(k)

PairSpec == Init /\ [][PairNext]_vars

(* ---------------- vocabulary of the properties ---------------- *)
Idx == 1..Len(calls)
Moves == {"MoveIntoResourcePool", "MoveIntoFolder_Task"}
\* a call that did not fail: it returned, and its task (if any) ended without a
\* fault or with the fault the caller takes for success
Completed(c) == c.res = "ok" \/ (c.op \in {"PowerOn", "PowerOff"} /\ c.res = "InvalidPowerState")
Ids(S) == { Ident(e) : e \in S }
InUpdate == cyc = "update" /\ pc # "idle"
ModifiedSet == Range(Delta.modified)
\* the elements of the declared set that the state holds with the same attributes
Unchanged == { e \in n_entity : \E o \in d_entity :
                 /\ Ident(o) = Ident(e) /\ o.start_order = e.start_order
                 /\ o.waiting_for_guest = e.waiting_for_guest }

(* ---------------- C1 ---------------- *)
\* C1: PowerOn is called only right after powerOnVApp has read back an entity
\* configuration that is not empty, in every create cycle, cloned or not.
C1_PowerOnOnlyWithEntities ==
  \A i \in Idx : calls[i].op = "PowerOn" =>
     /\ i > 1
     /\ calls[i - 1].op = "RetrieveOne" /\ calls[i - 1].res = "ok"
     /\ calls[i - 1].list # {}

\* a create cycle whose powerOnVApp read back an empty list and went on without PowerOn
C1_Witness ==
  /\ cyc = "create" /\ pc = "finish"
  /\ calls[Len(calls)].op = "RetrieveOne" /\ calls[Len(calls)].list = {}

(* ---------------- C2 ---------------- *)
\* C2: after any sequence of successful create and update cycles the container is
\* powered on only if at least one entity is attached to it.
C2_PoweredOnOnlyWithEntities ==
  (okRun /\ pc = "idle" /\ cyc \in {"create", "update"} /\ cExists)
     => (cPower = "on" => cConfig # {})

(* ---------------- C3 ---------------- *)
\* both moves of the stored entity e were issued and returned before call i
DetachedBefore(e, i) ==
  \E j, k \in 1..(i - 1) :
     /\ j < k
     /\ calls[j].op = "MoveIntoResourcePool" /\ calls[j].res = "ok"
     /\ calls[j].target = e.resourcepool_path /\ calls[j].list = {RemovedRef(e)}
     /\ calls[k].op = "MoveIntoFolder_Task" /\ calls[k].res = "ok"
     /\ calls[k].target = e.folder_path /\ calls[k].list = {RemovedRef(e)}

CreateRank(op) ==
  CASE op \in {"CreateVApp", "CloneVApp"} -> 1
    [] op = "MoveIntoResourcePool" -> 2
    [] op = "UpdateConfig" -> 3
    [] op = "PowerOn" -> 4
    [] OTHER -> 0

\* C4: a create cycle calls create or clone, then the attach move, then
\* UpdateConfig, then PowerOn; PowerOn comes only after the attach move (when
\* entities are declared) and UpdateConfig have succeeded, and a failed call is
\* the last call of the cycle.
C4_CreateOrder ==
  cyc = "create" =>
     LET M == { i \in Idx : CreateRank(calls[i].op) > 0 }
     IN /\ \A i, j \in M : i < j => CreateRank(calls[i].op) < CreateRank(calls[j].op)
        /\ \A i \in Idx : i < Len(calls) => Completed(calls[i])
        /\ \A i \in M : calls[i].op = "PowerOn" =>
              \E j \in M : j < i /\ calls[j].op = "UpdateConfig"
        /\ \A i \in M : calls[i].op = "UpdateConfig" =>
              /\ \E j \in M : j < i /\ CreateRank(calls[j].op) = 1
              /\ calls[i].list # {} =>
                    \E j \in M : j < i /\ calls[j].op = "MoveIntoResourcePool"
                                 /\ calls[j].target = VAppPath /\ calls[j].list = calls[i].list
        /\ (pc \in {"reconfig", "poweron", "finish"} /\ n_entity # {}) =>
              \E j \in M : calls[j].op = "MoveIntoResourcePool" /\ calls[j].res = "ok"
                           /\ Cardinality(calls[j].list) = Cardinality(n_entity)
        /\ \A i \in M : calls[i].op = "MoveIntoResourcePool" =>
              \E j \in M : j < i /\ CreateRank(calls[j].op) = 1

\* a create cycle with declared entities that has powered the container on
C4_Witness ==
  /\ cyc = "create" /\ pc = "finish" /\ n_entity # {}
  /\ \E i \in Idx : calls[i].op = "PowerOn" /\ calls[i].res = "ok"
  /\ calls[1].op = "CloneVApp"

(* ---------------- C5 ---------------- *)
\* C5: in a delete cycle a PowerOff that fails, or whose task ends with a fault
\* other than the already-powered-off one, ends the cycle with an error: Destroy
\* is not called and the resource keeps its id.
C5_PowerOffFaultAborts ==
  cyc = "delete" =>
     \A i \in Idx : (calls[i].op = "PowerOff" /\ calls[i].res \in {"err", "fault"}) =>
        /\ i = Len(calls)
        /\ pc = "idle" /\ result = "err"
        /\ d_id = VAppPath /\ cExists

\* a delete cycle whose PowerOff task ended with another fault
C5_Witness ==
  /\ cyc = "delete" /\ pc = "idle"
  /\ Len(calls) > 0 /\ calls[Len(calls)].op = "PowerOff" /\ calls[Len(calls)].res = "fault"

(* ---------------- C6 ---------------- *)
\* C6: powerOffVApp always calls PowerOff, takes the already-in-that-state fault
\* for success, and so a powerOffVApp that follows a successful powerOffVApp on
\* the same container returns no error.
C6_PowerOffIdempotent ==
  /\ (cyc = "delete" /\ pc = "destroy") =>
        Len(calls) > 0 /\ calls[Len(calls)].op = "PowerOff"
  /\ (cyc = "delete" /\ Len(calls) > 0 /\ calls[Len(calls)].op = "PowerOff"
        /\ calls[Len(calls)].res = "InvalidPowerState") => pc = "destroy"
  /\ (Len(offHist) = 2 /\ offHist[1] = "") => offHist[2] = ""

\* two powerOffVApp runs in a row on one container, both without error
C6_Witness ==
  /\ offHist = <<"", "">>
  /\ cyc = "delete" /\ pc = "destroy" /\ calls[Len(calls)].res = "InvalidPowerState"

(* ---------------- C7 ---------------- *)
\* C7: a PowerOn task that ends with the already-powered-on fault lets the create
\* cycle go on; any other PowerOn fault (or a failed PowerOn call) ends the create
\* cycle with an error before the state is back-populated and the id is set.
C7_PowerOnFaults ==
  cyc = "create" =>
     \A i \in Idx : calls[i].op = "PowerOn" =>
        /\ calls[i].res = "InvalidPowerState" =>
              \/ (i = Len(calls) /\ pc = "finish")
              \/ (i < Len(calls) /\ d_id = VAppPath)
        /\ calls[i].res \in {"err", "fault"} =>
              /\ i = Len(calls)
              /\ pc = "idle" /\ result = "err"
              /\ d_id = "" /\ d_entity = {}

\* a create cycle that ended well after PowerOn reported the container already on
C7_Witness ==
  /\ cyc = "create" /\ pc = "idle" /\ result = "ok" /\ d_id = VAppPath
  /\ \E i \in Idx : calls[i].op = "PowerOn" /\ calls[i].res = "InvalidPowerState"

(* ---------------- C8 ---------------- *)
PairwiseDisjoint(A, B, C) == A \cap B = {} /\ A \cap C = {} /\ B \cap C = {}

\* C8 as specified: added, removed and modified together hold every identity of
\* declared \cup previous, and no identity is in two of them.
C8_DiffPartitionsUnion ==
  InUpdate =>
     /\ Ids(Delta.added) \cup Ids(Delta.removed) \cup Ids(ModifiedSet) = Ids(n_entity \cup d_entity)
     /\ PairwiseDisjoint(Ids(Delta.added), Ids(Delta.removed), Ids(ModifiedSet))

\* C8 amended: for lists with one entry per identity, added, removed and modified
\* together hold exactly the identities of declared \cup previous whose entry is
\* not the same in both lists, and no identity is in two of them.
C8_DiffPartitionsChanged ==
  InUpdate =>
     /\ Ids(Delta.added) \cup Ids(Delta.removed) \cup Ids(ModifiedSet)
           = Ids(n_entity \cup d_entity) \ Ids(Unchanged)
     /\ PairwiseDisjoint(Ids(Delta.added), Ids(Delta.removed), Ids(ModifiedSet))

\* an update whose diff has an added, a removed and an unchanged entity at once
C8_Witness ==
  /\ InUpdate
  /\ Delta.added # {} /\ Delta.removed # {} /\ Unchanged # {}

(* ---------------- C9 ---------------- *)
\* C9: an identity only in the declared list is added, one only in the previous
\* list is removed, one in both lists with different attributes is modified
\* exactly once; with an empty previous list all declared entities are added.
C9_DiffClassifies ==
  InUpdate =>
     /\ Delta.added \subseteq n_entity /\ Delta.removed \subseteq d_entity
     /\ Ids(Delta.added) = Ids(n_entity) \ Ids(d_entity)
     /\ Ids(Delta.removed) = Ids(d_entity) \ Ids(n_entity)
     /\ Ids(ModifiedSet) = (Ids(n_entity) \cap Ids(d_entity)) \ Ids(Unchanged)
     /\ Len(Delta.modified) = Cardinality(Ids(ModifiedSet))
     /\ d_entity = {} =>
           Delta.added = n_entity /\ Delta.removed = {} /\ Delta.modified = <<>>

\* an update whose diff has an added, a removed and a modified entity at once
C9_Witness ==
  /\ InUpdate
  /\ Delta.added # {} /\ Delta.removed # {} /\ Len(Delta.modified) > 0

(* ---------------- C10 ---------------- *)
\* C10: every modified entity, as the update cycle populates it, has the moid,
\* folder path and resource-pool path of the previous entry of its identity and
\* the ordering attributes of the declared entry of its identity.
C10_ModifiedCarriesComputed ==
  InUpdate =>
     \A i \in 1..Len(Delta.modified) :
        LET m == populateVAppEntities(Delta.modified)[i]
            prev == CHOOSE o \in d_entity : Ident(o) = Ident(Delta.modified[i])
            decl == CHOOSE e \in n_entity : Ident(e) = Ident(Delta.modified[i])
        IN /\ m.entityMoid = prev.moid
           /\ m.entityFolderPath = prev.folder_path
           /\ m.entityRPPath = prev.resourcepool_path
           /\ m.StartOrder = decl.start_order
           /\ m.WaitingForGuest = Ptr(decl.waiting_for_guest)

(* ---------------- C11 ---------------- *)
\* the entities addEntities is given by the running cycle
Batch == IF cyc = "create" THEN n_entity ELSE Delta.added
BatchRefs == { RefOf(Ident(e)) : e \in Batch }
InAddEntities == pc \in {"attach", "u_attach"} /\ Batch # {}

\* C11: addEntities that returns an error has moved nothing: when an entity of the
\* batch does not resolve no MoveIntoResourcePool is called, the one call it can
\* have made is the refused move of the whole batch, and every entity is where it was.
C11_NoPartialAttach ==
  [][ (InAddEntities /\ pc' = "idle") =>
         /\ loc' = loc /\ cConfig' = cConfig
         /\ \/ calls' = calls
            \/ /\ calls' = Append(calls, Call("MoveIntoResourcePool", VAppPath, BatchRefs, "err"))
               /\ BatchRefs \subseteq ValidRefs(loc)
         /\ ~(BatchRefs \subseteq ValidRefs(loc)) => calls' = calls ]_vars

\* a create cycle that made the container and stopped in addEntities before any move
C11_Witness ==
  /\ cyc = "create" /\ pc = "idle" /\ result = "err"
  /\ calls = <<Call("CreateVApp", VAppPath, {}, "ok")>>
  /\ \A id \in Idents : loc[id] = Home(id)

(* ---------------- C12 ---------------- *)
\* C12: addEntities that succeeds has made one MoveIntoResourcePool call, into the
\* container, with the references of the whole batch, and has recorded for every
\* entity the folder path and the pool (or parent) path it had before that call.
C12_SingleBatchedMove ==
  [][ (InAddEntities /\ pc' # "idle") =>
         /\ calls' = Append(calls, Call("MoveIntoResourcePool", VAppPath, BatchRefs, "ok"))
         /\ \A j \in Idx : ~(calls[j].op = "MoveIntoResourcePool" /\ calls[j].target = VAppPath)
         /\ Len(vAppEntities') = Cardinality(Batch)
         /\ { IdOfEntity(vAppEntities'[i]) : i \in 1..Len(vAppEntities') } = Ids(Batch)
         /\ \A i \in 1..Len(vAppEntities') :
               LET id == IdOfEntity(vAppEntities'[i])
               IN /\ vAppEntities'[i].entityRPPath = loc[id].pool
                  /\ vAppEntities'[i].entityFolderPath = loc[id].folder
                  /\ vAppEntities'[i].entityMoid = RefOf(id).Value ]_vars

\* an update cycle that has attached two added entities, a virtual machine and a
\* nested container
C12_Witness ==
  /\ cyc = "update" /\ pc \in {"rm_pool", "u_reconf"}
  /\ Len(vAppEntities) = 2
  /\ \E i \in 1..2 : vAppEntities[i].entityType = vAppEntityTypeVApp
  /\ \E j \in Idx : calls[j].op = "MoveIntoResourcePool" /\ calls[j].target = VAppPath
                    /\ Cardinality(calls[j].list) = 2

(* ---------------- C13 ---------------- *)
\* the entities removeEntities is given by the running cycle
RemovedSet == IF cyc = "update" THEN Delta.removed ELSE d_entity
\* removeEntities has returned without an error
DetachDone ==
  \/ cyc = "update" /\ pc \in {"u_reconf", "u_finish"} /\ Delta.removed # {}
  \/ cyc = "delete" /\ pc \in {"poweroff", "destroy"} /\ d_entity # {}
AllTasksSucceeded == \A t \in tasks : t.state = "success"

\* C13: removeEntities restores an entity with MoveIntoResourcePool into the pool
\* at its recorded pool path and then MoveIntoFolder_Task into the folder at its
\* recorded folder path; when every one of these has succeeded, each removed
\* entity is in the pool and the folder recorded for it when it was attached.
C13_DetachRestores ==
  /\ \A k \in Idx : calls[k].op = "MoveIntoFolder_Task" =>
        /\ k > 1
        /\ calls[k - 1].op = "MoveIntoResourcePool" /\ calls[k - 1].res = "ok"
        /\ calls[k - 1].list = calls[k].list /\ Cardinality(calls[k].list) = 1
  /\ (pc # "idle" /\ cyc \in {"update", "delete"}) =>
        \A k \in Idx : calls[k].op = "MoveIntoFolder_Task" =>
           \E e \in RemovedSet :
              /\ calls[k].list = {RemovedRef(e)}
              /\ calls[k].target = e.folder_path
              /\ calls[k - 1].target = e.resourcepool_path
  /\ (DetachDone /\ AllTasksSucceeded) =>
        \A e \in RemovedSet :
           loc[Ident(e)] = [pool |-> e.resourcepool_path, folder |-> e.folder_path]

\* a detach that has put an entity back into a folder other than the root folder
C13_Witness ==
  /\ DetachDone /\ AllTasksSucceeded
  /\ \E e \in RemovedSet : e.folder_path # RootFolder /\ loc[Ident(e)].folder = e.folder_path

(* ---------------- C14 ---------------- *)
HasComputed(e) == e.moid # "" /\ e.folder_path # NoPath /\ e.resourcepool_path # NoPath
\* the entity is inside the container: addEntities has attached it
Attached(e) == loc[Ident(e)].pool = VAppPath

\* C14: in the entity set persisted at the end of a create or update cycle,
\* successful or not, an entity that has been attached carries its computed
\* fields, and computed fields are carried only as addEntities recorded them.
C14_ComputedIffAttached ==
  (pc = "idle" /\ cyc \in {"create", "update"}) =>
     \A e \in d_entity :
        /\ Attached(e) => HasComputed(e)
        /\ HasComputed(e) => e.moid = RefOf(Ident(e)).Value

(* ---------------- C15 ---------------- *)
\* the reconciled entities backPopulateEntiy is given by the running cycle
Reconciled == IF cyc = "create" THEN vAppEntities ELSE ModifiedEntities
\* the reconciled entities that have the identity of a stored element
MatchesOf(e) ==
  { j \in 1..Len(Reconciled) :
      Reconciled[j].name = e.name /\ Reconciled[j].entityType = getEntityType(e.type) }

Pushed == IF cyc = "create" THEN n_entity ELSE Delta.added \cup ModifiedSet

\* C16: the UpdateConfig call of an update cycle carries one config record per
\* added or modified entity, that of a create cycle one per declared entity, each
\* keyed by the entity's object reference (type and moid).
C16_ConfigPerDeltaEntity ==
  [][ (Len(calls') = Len(calls) + 1 /\ calls'[Len(calls')].op = "UpdateConfig") =>
         LET c == calls'[Len(calls')]
         IN /\ Len(c.entityConfig) = Cardinality(Pushed)
            /\ c.list = { RefOf(Ident(e)) : e \in Pushed } ]_vars

(* ---------------- C17 ---------------- *)
\* C17: the reconfiguration of an update leaves every entity that stays attached
\* and is not in the delta with the configuration record it had.
C17_UnchangedKeepConfig ==
  [][ (cyc = "update" /\ pc = "u_reconf" /\ pc' = "u_finish") =>
         \A e \in Unchanged : \A c \in cConfig :
            c.Key = RefOf(Ident(e)) => c \in cConfig' ]_vars

(* ---------------- C18 ---------------- *)
\* C18: a cycle that returns success has had every remote operation it issued,
\* the MoveIntoFolder tasks of its detach among them, end without a fault.
C18_SuccessMeansAllSucceeded ==
  (pc = "idle" /\ result = "ok") =>
     /\ \A i \in Idx : Completed(calls[i])
     /\ \A t \in tasks : t.state # "error"

(* ---------------- C19 ---------------- *)
\* C19: a remote call is issued only when every task submitted before it in the
\* cycle has ended; PowerOff and Destroy of a delete cycle are not called while a
\* MoveIntoFolder task is running.
C19_CallsAfterTasksEnd ==
  [][ Len(calls') > Len(calls) => Running(tasks) = {} ]_vars

(* ---------------- C20 ---------------- *)
\* C20: an update whose addEntities stops at an entity that does not resolve
\* detaches nothing, submits no reconfiguration and leaves the persisted entity
\* set as it was; a cycle that does not find the container changes nothing.
C20_NotFoundAbortsClean ==
  [][ /\ (cyc = "update" /\ InAddEntities /\ pc' = "idle" /\ calls' = calls) =>
            /\ UNCHANGED <<cExists, cPower, cConfig, loc, tasks>>
            /\ d_entity' = d_entity
      /\ (pc = "idle" /\ pc' = "idle" /\ cycles' = cycles + 1) =>
            /\ calls' = <<>>
            /\ UNCHANGED <<cExists, cPower, cConfig, loc>> ]_vars

(* ---------------- C21 ---------------- *)
\* the pool the declaration d selects by the stated precedence
PoolByPrecedence(d) ==
  IF d.parent_vapp # "" THEN Obj("VirtualApp", d.parent_vapp)
  ELSE IF d.resource_pool # "" THEN Obj("ResourcePool", d.resource_pool)
  ELSE IF d.cluster # "" THEN Obj("ResourcePool", "*" \o d.cluster \o "/Resources")
  ELSE Obj("DefaultResourcePool", "")

\* C21: calculateResourcePool selects the parent vApp's pool if a parent is
\* declared, else the explicit resource-pool path, else the default pool of the
\* named cluster, else the datacenter's default pool; it looks nothing else up,
\* so with a parent declared the explicit path is not looked up; it fails exactly
\* when the selected pool is not in the inventory
C21_PoolPrecedence ==
  fn = "calculateResourcePool" =>
    /\ ret.vapp.finds = <<PoolByPrecedence(arg.d)>>
    /\ ret.err = (PoolByPrecedence(arg.d) \notin arg.inv)
    /\ ~ret.err => ret.vapp.resourcePoolObj = PoolByPrecedence(arg.d)
    /\ arg.d.parent_vapp # "" =>
         Obj("ResourcePool", arg.d.resource_pool) \notin Range(ret.vapp.finds)

C21_Witness ==
  /\ fn = "calculateResourcePool"
  /\ arg.d.parent_vapp = "p1" /\ arg.d.resource_pool = "rp1"
  /\ ~ret.err /\ ret.vapp.resourcePoolObj = Obj("VirtualApp", "p1")

(* ---------------- C22 ---------------- *)
CloneRequests == { r \in Range(ret.vapp.requests) : r.op = "CloneVApp_Task" }
\* the folder the declaration d resolves to
FolderByPrecedence(d) ==
  IF d.folder # "" THEN Obj("Folder", d.datacenter \o "/vm/" \o d.folder) ELSE VmFolder

\* C22: a clone request names a destination folder exactly when no parent vApp
\* is declared, and then it is the resolved folder: the one at the declared
\* folder path, else the datacenter's VM folder
C22_CloneFolderIffNoParent ==
  fn = "createContainer" =>
    \A r \in CloneRequests :
      /\ (r.Spec.VmFolder # NilPtr) = (arg.d.parent_vapp = "")
      /\ arg.d.parent_vapp = "" => r.Spec.VmFolder = Ptr(FolderByPrecedence(arg.d))

C22_Witness ==
  /\ fn = "createContainer" /\ arg.d.parent_vapp = "p1" /\ arg.d.folder = "f1"
  /\ \E r \in CloneRequests : r.Spec.VmFolder = NilPtr /\ r.Target = Obj("VirtualApp", "p1")

DatastoreResolves(a) ==
  IF a.d.datastore = "" THEN Obj("DefaultDatastore", "") \in a.inv
  ELSE \/ Obj("Datastore", a.d.datastore) \in a.inv
       \/ /\ Obj("StoragePod", a.d.datastore) \in a.inv
          /\ Obj("VirtualApp", a.d.template_vapp[1].name) \in a.inv /\ a.env.placement
\* the source vApp and both networks of every declared mapping are in the inventory
SourceResolves(a) == Obj("VirtualApp", a.d.template_vapp[1].name) \in a.inv
NetworksResolve(a) ==
  \A i \in 1..Len(a.d.template_vapp[1].networkMappings) :
    /\ Obj("Network", a.d.template_vapp[1].networkMappings[i].srcNetLabel) \in a.inv
    /\ Obj("Network", a.d.template_vapp[1].networkMappings[i].destNetLabel) \in a.inv
AllResolve(a) == DatastoreResolves(a) /\ SourceResolves(a) /\ NetworksResolve(a)
InCloneVApp == fn = "createContainer" /\ ret.stage = "create" /\ Len(arg.d.template_vapp) > 0

\* C24: cloneVApp submits the clone only when the datastore, the source vApp
\* and both networks of every mapping have resolved; when one of them does not
\* resolve, or the request is refused or its task faults, cloneVApp returns an
\* error, the inventory has no new container and no handle is recorded
C24_CloneAllOrNothing ==
  InCloneVApp =>
    /\ CloneRequests # {} => AllResolve(arg)
    /\ (~AllResolve(arg) \/ arg.env.clone \in {"submit_err", "fault"}) =>
         /\ ret.result = "err"
         /\ ret.inv = arg.inv
         /\ ret.vapp.createdVApp = NilObj

C24_Witness ==
  /\ InCloneVApp
  /\ Len(arg.d.template_vapp[1].networkMappings) = 2
  /\ Obj("Network", "n3") \notin arg.inv
  /\ ret.result = "err" /\ CloneRequests = {} /\ ret.vapp.createdVApp = NilObj

(* ---------------- C25 ---------------- *)
DefaultAllocation ==
  [Reservation |-> Ptr(1), Limit |-> Ptr(-1), Shares |-> Ptr([Level |-> "normal"]),
   ExpandableReservation |-> Ptr(TRUE)]
LocationResolves(a) ==
  /\ PoolByPrecedence(a.d) \in a.inv
  /\ a.d.folder # "" => FolderByPrecedence(a.d) \in a.inv

\* C25: with no template declared and the pool and folder resolving, the create
\* cycle submits CreateVApp under the resolved pool and folder with the default
\* allocation (reservation 1, limit -1, shares normal, expandable) for memory
\* and CPU; building the allocation never ends the cycle
C25_DefaultAllocationPassed ==
  (fn = "createContainer" /\ Len(arg.d.template_vapp) = 0 /\ LocationResolves(arg)) =>
    /\ ret.stage = "create" /\ ret.result # "panic"
    /\ \E r \in Range(ret.vapp.requests) :
         /\ r.op = "CreateVApp"
         /\ r.MemoryAllocation = DefaultAllocation /\ r.CpuAllocation = DefaultAllocation
         /\ r.Target = PoolByPrecedence(arg.d) /\ r.folder = FolderByPrecedence(arg.d)

(* ---------------- C26 ---------------- *)
\* a *bool of a config record says b: it points to b, or it is unset and b is
\* the default false
Says(field, b) == field = Ptr(b) \/ (field = NilPtr /\ ~b)

\* C26: in every UpdateConfig call, the config record of a pushed entity carries
\* the ordering attributes the entity is declared with: the start order and
\* waiting-for-guest
C26_ConfigCarriesDeclared ==
  [][ (Len(calls') = Len(calls) + 1 /\ calls'[Len(calls')].op = "UpdateConfig") =>
         \A e \in Pushed :
           \A r \in Range(calls'[Len(calls')].entityConfig) :
             r.Key = RefOf(Ident(e)) =>
               /\ r.StartOrder = e.start_order
               /\ Says(r.WaitingForGuest, e.waiting_for_guest) ]_vars

(* ---------------- C27 ---------------- *)
\* C27: validateEntityType returns no error exactly for "vm" and "vapp", and
\* for every other value one error saying "Supported values are vm, vapp";
\* getEntityType maps "vm" to VirtualMachine and "vapp" to VirtualApp, so no
\* accepted value comes out as UNKNOWN
C27_EntityTypeAccepted ==
  /\ fn = "validateEntityType" =>
       /\ (ret.errors = <<>>) = (arg.v \in {"vm", "vapp"})
       /\ arg.v \notin {"vm", "vapp"} =>
            ret.errors = <<"type: Supported values are vm, vapp">>
  /\ (fn = "getEntityType" /\ validateEntityType(arg.v, "type").errors = <<>>) =>
       /\ ret.entityType = (IF arg.v = "vm" THEN "VirtualMachine" ELSE "VirtualApp")
       /\ ret.entityType # "UNKNOWN"

C27_Witness ==
  /\ fn = "validateEntityType" /\ arg.v = "VirtualMachine"
  /\ Len(ret.errors) = 1

(* ---------------- C28 ---------------- *)
\* C28: validateStartAction returns no error exactly for none and powerOn,
\* validateStopAction exactly for none, powerOff, guestShutdown and suspend;
\* for every other value each returns one error, and neither ever a warning
C28_ActionsAccepted ==
  /\ fn = "validateStartAction" =>
       /\ ret.ws = <<>>
       /\ Len(ret.errors) = (IF arg.v \in {"none", "powerOn"} THEN 0 ELSE 1)
  /\ fn = "validateStopAction" =>
       /\ ret.ws = <<>>
       /\ Len(ret.errors) =
            (IF arg.v \in {"none", "powerOff", "guestShutdown", "suspend"} THEN 0 ELSE 1)

C28_Witness ==
  /\ fn = "validateStopAction" /\ arg.v = "guestShutdown"
  /\ ret.errors = <<>> /\ ret.ws = <<>>

(* ---------------- C29 ---------------- *)
\* the inventory path of a container declared as d
PathOf(d) ==
  IF d.parent_vapp # "" THEN d.parent_vapp \o "/" \o d.name
  ELSE IF d.folder # "" THEN d.folder \o "/" \o d.name
  ELSE d.name

\* C29: the id a create cycle assigns is parent_vapp/name if a parent is
\* declared, else folder/name if a folder is declared, else the name; the
\* update, read and delete cycles look the container up by the path that is
\* its id
C29_LookupByIdentity ==
  fn = "getCreatedVApp" =>
    /\ ret.id = PathOf(arg.created)
    /\ ret.path = ret.id

(* ---------------- C30 ---------------- *)
\* C30: an entity that is in one container leaves it only by a step of that
\* container's own cycles, never by a cycle of the other resource
C30_NoForeignMove ==
  [][ \A e \in PairNames, k \in Containers :
        (pools[e] = k /\ pools'[e] # k) => turn' = k ]_vars

(* ---------------- C31 ---------------- *)
\* the identities declared and stored with different attributes
ModifiedIds == (Ids(n_entity) \cap Ids(d_entity)) \ Ids(Unchanged)
MoveAppended == Len(calls') = Len(calls) + 1 /\ calls'[Len(calls')].op \in Moves

\* C31: no step of an update cycle moves an entity that is declared and stored
\* with different attributes: no MoveIntoResourcePool and no MoveIntoFolder_Task
\* of the cycle names it and its pool and folder stay as they are
C31_ModifiedNotMoved ==
  [][ InUpdate =>
        \A id \in ModifiedIds :
          /\ loc'[id] = loc[id]
          /\ MoveAppended => RefOf(id) \notin calls'[Len(calls')].list ]_vars

\* an update with a modified entity that has moved another entity and pushed
\* the configuration
C31_Witness ==
  /\ InUpdate /\ pc = "u_finish" /\ ModifiedIds # {}
  /\ \E i \in Idx : calls[i].op \in Moves
  /\ \E i \in Idx : calls[i].op = "UpdateConfig" /\ calls[i].res = "ok"
                    /\ \E id \in ModifiedIds : RefOf(id) \in calls[i].list

(* ---------------- C32 ---------------- *)
\* no call of the running cycle failed and no task it submitted ended with a fault
FaultFree(cs, ts) ==
  /\ \A i \in 1..Len(cs) : Completed(cs[i])
  /\ \A t \in ts : t.state = "success"
InPlace(S, l) ==
  \A e \in S : l[Ident(e)] = [pool |-> e.resourcepool_path, folder |-> e.folder_path]
RerunReturns == cyc = "delete" /\ rerun /\ pc # "idle" /\ pc' = "idle"

\* C32: a delete cycle that is run again after a delete cycle that failed halfway,
\* and that meets no fault of the inventory, returns success with the container
\* destroyed, every stored entity in its recorded resource pool and folder, and
\* the id cleared
C32_DeleteRepeatable ==
  [][ RerunReturns /\ FaultFree(calls', tasks')
        => /\ result' = "ok" /\ ~cExists' /\ d_id' = ""
           /\ InPlace(d_entity, loc') ]_vars

\* a delete cycle run again that has destroyed the container
C32_Witness ==
  /\ cyc = "delete" /\ rerun /\ pc = "idle" /\ result = "ok"
  /\ \E i \in Idx : calls[i].op \in Moves
  /\ ~cExists /\ d_id = ""

(* ---------------- C33 ---------------- *)
\* the calls of a log that name the entity e
CallsOn(cs, e) == { i \in 1..Len(cs) : RemovedRef(e) \in cs[i].list }
\* removeEntities returns an error from the first half of a round (pool lookup or
\* pool move), resp. from the folder lookup of the second half
PoolStepFails == pc = "rm_pool" /\ pc' = "idle"
FolderLookupFails ==
  /\ pc = "rm_folder" /\ pc' = "idle"
  /\ calls' = calls \/ calls'[Len(calls')].op = "FindByInventoryPath"
RestoredBefore(n, l) ==
  \A j \in 1..(n - 1) : l[Ident(RemoveList[j])].pool = RemoveList[j].resourcepool_path

\* C33 (as amended): removeEntities stops at the first failure. When the pool
\* lookup or the pool move of an entity fails, an error is returned, no
\* MoveIntoFolder_Task names that entity, no call names an entity after it, and
\* the entities before it are in their recorded pools; when the folder lookup
\* fails after the pool move, the entity is in its recorded pool, no
\* MoveIntoFolder_Task names it and its folder is the one the pool move left it in
C33_StopsAtFirstFailure ==
  [][ /\ PoolStepFails =>
           /\ result' = "err" /\ loc' = loc
           /\ \A i \in CallsOn(calls', RemoveList[rmIdx]) : calls'[i].op # "MoveIntoFolder_Task"
           /\ \A j \in (rmIdx + 1)..Len(RemoveList) : CallsOn(calls', RemoveList[j]) = {}
           /\ RestoredBefore(rmIdx, loc')
      /\ FolderLookupFails =>
           /\ result' = "err" /\ loc' = loc
           /\ loc'[Ident(RemoveList[rmIdx])].pool = RemoveList[rmIdx].resourcepool_path
           /\ \A i \in CallsOn(calls', RemoveList[rmIdx]) : calls'[i].op # "MoveIntoFolder_Task"
           /\ \A j \in (rmIdx + 1)..Len(RemoveList) : CallsOn(calls', RemoveList[j]) = {}
           /\ RestoredBefore(rmIdx, loc') ]_vars

\* C33 (as stated): the same, and after a failed folder lookup the entity is not
\* in its recorded folder
C33_NotInRecordedFolder ==
  [][ FolderLookupFails =>
        loc'[Ident(RemoveList[rmIdx])].folder # RemoveList[rmIdx].folder_path ]_vars

\* a detach that moved an entity into its recorded pool and then failed to look
\* its folder up
C33_Witness ==
  /\ pc = "idle" /\ result = "err" /\ cyc \in {"update", "delete"} /\ Len(calls) >= 2
  /\ calls[Len(calls)].op = "FindByInventoryPath" /\ calls[Len(calls)].target \in FolderPaths
  /\ calls[Len(calls) - 1].op = "MoveIntoResourcePool" /\ calls[Len(calls) - 1].res = "ok"

(* ---------------- C34 ---------------- *)
\* the running update declares the stored set again and the same description
NothingChanged == InUpdate /\ n_entity = d_entity /\ ~descChange
\* the running update declares the stored set less some entities, the rest and
\* the description as they are
OnlyRemoved ==
  /\ InUpdate /\ ~descChange
  /\ n_entity \subseteq d_entity /\ Ids(n_entity) # Ids(d_entity)
RemovedIds == Ids(d_entity) \ Ids(n_entity)

ReturnsError == (pc # "idle" \/ cycles' = cycles + 1) /\ pc' = "idle" /\ result' = "err"
\* the last step of a create cycle whose closing read of the container fails
ClosingReadFails ==
  /\ cyc = "create" /\ pc = "finish"
  /\ calls'[Len(calls')] = Call("RetrieveOne", VAppPath, {}, "err")
IdIsSet == d_id = "" /\ d_id' # ""
IdIsCleared == d_id # "" /\ d_id' = ""
\* the steps of the create cycle so far: the container was made, the declared
\* entities are attached and configured, and no call failed
AllCreateStepsDone ==
  /\ cyc = "create" /\ pc = "finish" /\ cExists
  /\ \A i \in Idx : Completed(calls[i])
  /\ \E i \in Idx : calls[i].op \in {"CreateVApp", "CloneVApp"}
  /\ \A e \in n_entity : loc[Ident(e)].pool = VAppPath
  /\ n_entity # {} => cPower = "on"

\* C35 (as amended): the id is set only by the last step of a create cycle all of
\* whose steps succeeded, and cleared only by the step of a delete cycle in which
\* Destroy succeeded; a cycle that returns an error leaves the id as it was,
\* except a create cycle whose closing read fails: it returns the error with the
\* id set
C35_IdentityChanges ==
  [][ /\ IdIsSet => AllCreateStepsDone /\ d_id' = VAppPath
      /\ IdIsCleared => /\ cyc = "delete" /\ pc = "destroy" /\ result' = "ok"
                        /\ calls'[Len(calls')] = Call("Destroy", VAppPath, {}, "ok")
      /\ ReturnsError => d_id' = d_id \/ (ClosingReadFails /\ d_id' = VAppPath) ]_vars

\* C35 (as stated): a cycle that returns an error leaves the id as it was before
C35_ErrorKeepsIdentity ==
  [][ ReturnsError => d_id' = d_id ]_vars

\* a create cycle has returned an error and the id is set
C35_Witness ==
  /\ pc = "idle" /\ cyc = "create" /\ result = "err" /\ d_id = VAppPath
  /\ calls[Len(calls)].op = "RetrieveOne"

(* ---------------- C36 ---------------- *)
\* the read cycle got as far as the lookup, and the lookup found the container
\* that is at the path of the id
ReadLooksUp == fn = "resourceVSphereVAppRead" /\ arg.env.construct = "ok"
ReadFinds == ReadLooksUp /\ arg.env.find = "ok" /\ arg.d.id \in arg.env.vapps

\* C36: a read cycle that does not find the container at its path clears the id
\* and returns success; one that finds it keeps the id and the stored entity
\* list and changes at most the uuid, which it sets to the container's when the
\* property read succeeds; neither makes a request that changes the inventory
C36_ReadClearsOrRefreshes ==
  fn = "resourceVSphereVAppRead" =>
    /\ ret.requests = <<>>
    /\ (ReadLooksUp /\ ~ReadFinds) =>
         ~ret.err /\ ret.d.id = ""
    /\ ReadFinds =>
         /\ ret.d.id = arg.d.id /\ ret.d.entity = arg.d.entity /\ ret.d.decl = arg.d.decl
         /\ arg.env.retrieve = "ok" => ~ret.err /\ ret.d.uuid = arg.env.InstanceUuid
         /\ arg.env.retrieve # "ok" => ret.err /\ ret.d.uuid = arg.d.uuid

\* a read of a resource with stored entities whose container is gone
C36_Witness ==
  /\ ReadLooksUp /\ arg.env.vapps = {} /\ arg.d.id # "" /\ arg.d.entity # {}
  /\ ret.d.id = "" /\ ~ret.err

(* ---------------- C37 ---------------- *)
\* the entities that are in the container
AttachedIds == { id \in Idents : loc[id].pool = VAppPath }

\* C37: when a create or update cycle has returned success and an entity is
\* attached to the container, the container is powered on
C37_PoweredOnWithEntities ==
  (pc = "idle" /\ result = "ok" /\ cyc \in {"create", "update"} /\ cExists /\ AttachedIds # {})
    => cPower = "on"

(* ---------------- C38 ---------------- *)
\* the elements of a range list that are not empty
RangeElements(s) ==
  LET pieces == Split(s, ",")
  IN { TrimSpace(pieces[i]) : i \in 1..Len(pieces) } \ {<<>>}
\* a number or a start-end pair with 1 <= start <= end <= 4094
StartOf(e) == Atoi(Split(e, "-")[1])
EndOf(e) == Atoi(Split(e, "-")[Len(Split(e, "-"))])
GoodRange(e) ==
  /\ MatchNumber(e) \/ MatchPair(e)
  /\ StartOf(e) \in vlanIdMin..vlanIdMax /\ EndOf(e) \in vlanIdMin..vlanIdMax
  /\ StartOf(e) <= EndOf(e)

\* C38: validateVlanRange reports an error exactly when some non-empty element
\* of the list, wherever it stands, is not a number or start-end pair inside
\* 1..4094 with start <= end
C38_VlanRangeValidated ==
  fn = "validateVlanRange" =>
    (ret.errors # <<>> <=> \E e \in RangeElements(arg.vlanRange) : ~GoodRange(e))


====
